---- MODULE Spec2Model ----
(***************************************************************************)
(* srKasse: the SKU allocation engine of the multi-tenant product service. *)
(*                                                                         *)
(* The model follows app/services/product_service.py: create_product       *)
(* normalises the codes, calls get_next_sequence (SELECT of the counter    *)
(* row, then INSERT or UPDATE and flush), composes the SKUs, adds the      *)
(* product row and commits.  Every request runs in its own session         *)
(* (app/db/session.py get_session), i.e. its own database transaction.     *)
(*                                                                         *)
(* Storage semantics: the schema is a PostgreSQL schema (the alembic       *)
(* migrations use the postgresql dialect) and the engine is created with   *)
(* the default isolation level, READ COMMITTED: a SELECT sees the          *)
(* committed rows plus the transaction's own writes and takes no lock; an  *)
(* INSERT or UPDATE of a row waits for a concurrent uncommitted writer of  *)
(* the same row (primary key / unique index entry) to end.                 *)
(*                                                                         *)
(* Strings are sequences of one-character strings; a character outside     *)
(* ASCII is written as its code point ("U+0130").                          *)
(***************************************************************************)
EXTENDS Integers, Sequences, FiniteSets, TLC

(***************************************************************************)
(* Bounds of the model.                                                    *)
(***************************************************************************)
\* number of creation requests in one run
MaxReq == 3
\* number of requests that may be in flight at the same time
MaxActive == 2
\* number of live creation requests in a run with a bulk import
MaxLive == 2
\* number of creation requests in a run with listings
MaxListReq == 2
\* number of creation requests in a run over the code variants
MaxCodeReq == 3
\* number of live creation requests in a run with the seed import of one key
MaxSeedLive == 3
\* largest value handed to ensure_counter_at_least when it is applied twice
MaxAtLeast == 3
\* number of creation requests in a run over codes that hold a '-'
MaxDashReq == 3
\* number of creation requests in a run whose commits take two round trips
MaxIndexReq == 2
\* number of create_sku_record calls in a run of the desktop tool
MaxDesktopSaves == 3
\* number of requests in the runs over codes longer than the format's fields
MaxWideReq == 3
\* number of requests in the runs under fair scheduling
MaxFairReq == 2
\* number of requests in the runs with X-Tenant-Id headers
MaxTenantReq == 2
\* number of create_sku_record calls in a run of the desktop tool with previews
MaxPreviewSaves == 3
\* number of create_sku_record calls in a run of the desktop tool with restarts
MaxStartSaves == 3
\* largest sequence number whose padded form is compared with its decimal form
MaxSeqShown == 120
\* length of the names handed to slug_from_name
MaxNameLen == 3
\* largest sequence number handed to the composers, besides 100
MaxComposeSeq == 3

Reqs == 1..MaxReq

\* authenticated tenant ids (opaque UUIDs in the program)
Tenants == {"tA", "tB"}

(***************************************************************************)
(* Strings.                                                                *)
(***************************************************************************)
DigitChars == <<"0", "1", "2", "3", "4", "5", "6", "7", "8", "9">>

UpperChars == <<"A", "B", "C", "D", "E", "F", "G", "H", "I", "J", "K", "L", "M",
                "N", "O", "P", "Q", "R", "S", "T", "U", "V", "W", "X", "Y", "Z">>

LowerChars == <<"a", "b", "c", "d", "e", "f", "g", "h", "i", "j", "k", "l", "m",
                "n", "o", "p", "q", "r", "s", "t", "u", "v", "w", "x", "y", "z">>

Range(s) == {s[i] : i \in 1..Len(s)}

\* characters outside ASCII: capital I with dot above, whose lower-case form
\* is the two characters "i" and combining dot above; the combining dot above
\* itself, which is not alphanumeric; double-struck capital C, an upper-case
\* letter that has no lower-case form
CapitalIDot == "U+0130"
CombiningDot == "U+0307"
DoubleStruckC == "U+2102"

AlnumChars ==
    Range(DigitChars) \cup Range(UpperChars) \cup Range(LowerChars)
        \cup {CapitalIDot, DoubleStruckC}

\* str.isalnum() of one character
IsAlnum(c) == c \in AlnumChars

\* str.lower() of one character: a string, of two characters for U+0130
Lower(c) ==
    IF c \in Range(UpperChars)
    THEN <<LowerChars[CHOOSE i \in 1..Len(UpperChars) : UpperChars[i] = c]>>
    ELSE IF c = CapitalIDot THEN <<"i", CombiningDot>>
    ELSE <<c>>

RECURSIVE Join(_)
\* "".join(parts)
Join(parts) == IF Len(parts) = 0 THEN <<>> ELSE Head(parts) \o Join(Tail(parts))

Zeros(k) == [i \in 1..k |-> "0"]

\* str.zfill(width): pads with '0' on the left, after a leading sign if any
Zfill(s, width) ==
    IF Len(s) >= width THEN s
    ELSE IF Len(s) > 0 /\ s[1] \in {"+", "-"}
         THEN <<s[1]>> \o Zeros(width - Len(s)) \o Tail(s)
         ELSE Zeros(width - Len(s)) \o s

\* code[-1] if len(code) > 0 else "0"
LastChar(s) == IF Len(s) > 0 THEN <<s[Len(s)]>> ELSE <<"0">>

RECURSIVE IntToStr(_)
\* str(n) of a non-negative integer
IntToStr(n) ==
    IF n < 10 THEN <<DigitChars[n + 1]>>
    ELSE IntToStr(n \div 10) \o <<DigitChars[(n % 10) + 1]>>

RECURSIVE LStrip(_, _)
LStrip(s, c) == IF Len(s) > 0 /\ s[1] = c THEN LStrip(Tail(s), c) ELSE s

RECURSIVE RStrip(_, _)
RStrip(s, c) ==
    IF Len(s) > 0 /\ s[Len(s)] = c THEN RStrip(SubSeq(s, 1, Len(s) - 1), c) ELSE s

\* mutant: only the leading characters are removed
StripLeft(s, c) == LStrip(s, c)

\* str.strip(c)
Strip(s, c) == RStrip(LStrip(s, c), c)

(***************************************************************************)
(* Code composer and slug (product_service.py 12-35).                      *)
(***************************************************************************)
\* mutant: the human form leaves out the subcategory code
format_human_sku_short(brand_code, category_code, subcategory_code, quantity_code, product_seq) ==
    brand_code \o <<"-">> \o category_code \o <<"-">> \o quantity_code \o <<"-">> \o product_seq

format_human_sku(brand_code, category_code, subcategory_code, quantity_code, product_seq) ==
    brand_code \o <<"-">> \o category_code \o <<"-">> \o subcategory_code
        \o <<"-">> \o quantity_code \o <<"-">> \o product_seq

\* mutant: the numeric form leaves out the quantity code
format_numeric_sku_short(brand_code, category_code, subcategory_code, quantity_code, product_seq) ==
    brand_code \o category_code \o subcategory_code \o product_seq

format_numeric_sku(brand_code, category_code, subcategory_code, quantity_code, product_seq) ==
    brand_code \o category_code \o subcategory_code \o quantity_code \o product_seq

slug_from_name(name) ==
    Strip(Join([i \in 1..Len(name) |->
                    IF IsAlnum(name[i]) THEN Lower(name[i]) ELSE <<"-">>]), "-")

(***************************************************************************)
(* Requests.  A payload is the JSON body of POST /products/; besides the   *)
(* fields of the ProductCreate schema it may carry keys the schema does    *)
(* not declare (here: tenant_id), which validation drops.                  *)
(***************************************************************************)
PayloadA1 ==
    [brand_code |-> <<"1">>, category_code |-> <<"1">>,
     subcategory_code |-> <<"1">>, quantity_code |-> <<"1">>,
     full_product_name |-> <<"A", " ", "1">>,
     tenant_id |-> "tB"]

PayloadB1 ==
    [brand_code |-> <<"1">>, category_code |-> <<"1">>,
     subcategory_code |-> <<"1">>, quantity_code |-> <<"2">>,
     full_product_name |-> <<"B", "1", "!">>,
     tenant_id |-> "tA"]

\* the codes of A1 written with leading zeros and extra prefix characters
PayloadA1p ==
    [brand_code |-> <<"0", "0", "1">>, category_code |-> <<"0", "1">>,
     subcategory_code |-> <<"2", "1">>, quantity_code |-> <<"9", "1">>,
     full_product_name |-> <<"A", "p">>]

\* an empty full_product_name
PayloadE0 ==
    [brand_code |-> <<"1">>, category_code |-> <<"1">>,
     subcategory_code |-> <<"1">>, quantity_code |-> <<"1">>,
     full_product_name |-> <<>>]

\* a brand code of four characters: the brand of A1 with one more leading zero
PayloadW4 ==
    [brand_code |-> <<"0", "0", "0", "1">>, category_code |-> <<"1">>,
     subcategory_code |-> <<"1">>, quantity_code |-> <<"1">>,
     full_product_name |-> <<"W">>]

\* a brand code that begins with a sign character
PayloadS1 ==
    [brand_code |-> <<"-", "1">>, category_code |-> <<"1">>,
     subcategory_code |-> <<"1">>, quantity_code |-> <<"1">>,
     full_product_name |-> <<"S">>]

\* an empty subcategory code
PayloadX0 ==
    [brand_code |-> <<"1">>, category_code |-> <<"1">>,
     subcategory_code |-> <<>>, quantity_code |-> <<"1">>,
     full_product_name |-> <<"X">>]

\* a category code with a '-' in it, and a brand code with a '-' in it whose
\* normalised codes give the same human_sku as those of D1: 001-1-01-1-1
PayloadD1 ==
    [brand_code |-> <<"0", "0", "1">>, category_code |-> <<"1", "-", "0", "1">>,
     subcategory_code |-> <<"1">>, quantity_code |-> <<"1">>,
     full_product_name |-> <<"D", "1">>]

PayloadD2 ==
    [brand_code |-> <<"0", "0", "1", "-", "1">>, category_code |-> <<"0", "1">>,
     subcategory_code |-> <<"1">>, quantity_code |-> <<"1">>,
     full_product_name |-> <<"D", "2">>]

\* a brand code of 4 digits and a category code of 3 whose normalised codes
\* put together give the same digits: 0010 11 and 001 011
PayloadN1 ==
    [brand_code |-> <<"0", "0", "1", "0">>, category_code |-> <<"1", "1">>,
     subcategory_code |-> <<"1">>, quantity_code |-> <<"1">>,
     full_product_name |-> <<"N", "1">>]

PayloadN2 ==
    [brand_code |-> <<"0", "0", "1">>, category_code |-> <<"0", "1", "1">>,
     subcategory_code |-> <<"1">>, quantity_code |-> <<"1">>,
     full_product_name |-> <<"N", "2">>]

Payload(name) ==
    CASE name = "A1" -> PayloadA1
      [] name = "B1" -> PayloadB1
      [] name = "A1p" -> PayloadA1p
      [] name = "E0" -> PayloadE0
      [] name = "W4" -> PayloadW4
      [] name = "S1" -> PayloadS1
      [] name = "X0" -> PayloadX0
      [] name = "D1" -> PayloadD1
      [] name = "D2" -> PayloadD2
      [] name = "N1" -> PayloadN1
      [] name = "N2" -> PayloadN2

\* the requests of the model: the tenant of the caller's token and the body
Requests ==
    { [tenant |-> "tA", payload |-> "A1"],
      [tenant |-> "tB", payload |-> "A1"],
      [tenant |-> "tA", payload |-> "B1"] }

\* the requests of the runs that exercise validation and normalisation
CodeRequests ==
    { [tenant |-> "tA", payload |-> n] : n \in {"A1", "A1p", "E0", "W4", "S1", "X0"} }

\* the requests of the runs next to the seed import: one key
SeedRequests == { [tenant |-> "tA", payload |-> "A1"] }

\* the requests of the runs over codes that hold a '-'
DashRequests == { [tenant |-> "tA", payload |-> n] : n \in {"A1", "D1", "D2"} }

\* the requests of the runs over codes longer than the format's fields
WideRequests == { [tenant |-> "tA", payload |-> n] : n \in {"A1", "N1", "N2"} }

AllRequests ==
    Requests \cup CodeRequests \cup SeedRequests \cup DashRequests \cup WideRequests

CodeFields == {"brand_code", "category_code", "subcategory_code", "quantity_code"}

SchemaFields == CodeFields \cup {"full_product_name"}

\* Field(..., min_length=1, max_length=8) of the four codes
CodeMaxLength == 8
\* Field(..., min_length=1, max_length=255) of full_product_name
NameMaxLength == 255

\* mutant: the length of full_product_name is not checked
ValidAnyName(payload) ==
    \A f \in CodeFields : Len(payload[f]) >= 1 /\ Len(payload[f]) <= CodeMaxLength

\* pydantic validation of the body against ProductCreate: FastAPI answers
\* 422 and never calls post_product when it fails
Valid(payload) ==
    /\ \A f \in CodeFields : Len(payload[f]) >= 1 /\ Len(payload[f]) <= CodeMaxLength
    /\ Len(payload.full_product_name) >= 1
    /\ Len(payload.full_product_name) <= NameMaxLength

\* the validated model: only the declared fields survive
ProductCreate(payload) == [f \in SchemaFields |-> payload[f]]

\* create_product 87-98: normalisation of the four codes
NormBrand(data) == Zfill(data.brand_code, 3)
NormCategory(data) == Zfill(data.category_code, 2)
NormSubcategory(data) == LastChar(data.subcategory_code)
NormQuantity(data) == LastChar(data.quantity_code)

\* mutant: the key leaves out the quantity code
CounterKeyNoQuantity(tenant_id, brand_code, category_code, subcategory_code, quantity_code) ==
    <<tenant_id, brand_code, category_code, subcategory_code, <<"0">> >>

\* the primary key of product_counters, which is also the WHERE clause of
\* the SELECT in get_next_sequence
CounterKey(tenant_id, brand_code, category_code, subcategory_code, quantity_code) ==
    <<tenant_id, brand_code, category_code, subcategory_code, quantity_code>>

\* mutant: the counter is looked up without the caller's tenant
AllocationKeyNoTenant(tenantCtx, data) ==
    CounterKey("", NormBrand(data), NormCategory(data),
               NormSubcategory(data), NormQuantity(data))

\* the key create_product hands to get_next_sequence (100-107)
AllocationKey(tenantCtx, data) ==
    CounterKey(tenantCtx, NormBrand(data), NormCategory(data),
               NormSubcategory(data), NormQuantity(data))

\* mutant: the counter of an existing row is written back unchanged
NextValNoIncrement(row) ==
    IF row = {} THEN 1 ELSE CHOOSE n \in row : TRUE

\* mutant: an existing counter is advanced by two
NextValSkip(row) ==
    IF row = {} THEN 1 ELSE (CHOOSE n \in row : TRUE) + 2

\* get_next_sequence 56-71: the value written and returned, given the
\* result of the SELECT (the empty set is None, {n} a row with counter n)
NextVal(row) ==
    IF row = {} THEN 1 ELSE (CHOOSE n \in row : TRUE) + 1

\* create_product 108: product_seq = str(seq).zfill(2)
ProductSeq(n) == Zfill(IntToStr(n), 2)

\* mutant: the row is given to a fixed tenant instead of the caller's
NewProductFirstTenant(id, tenantCtx, data, n) ==
    [id |-> id,
     tenant_id |-> "tA",
     human_sku |-> format_human_sku(NormBrand(data), NormCategory(data),
                       NormSubcategory(data), NormQuantity(data), ProductSeq(n)),
     numeric_sku |-> format_numeric_sku(NormBrand(data), NormCategory(data),
                       NormSubcategory(data), NormQuantity(data), ProductSeq(n)),
     brand_code |-> NormBrand(data),
     category_code |-> NormCategory(data),
     subcategory_code |-> NormSubcategory(data),
     quantity_code |-> NormQuantity(data),
     product_seq |-> ProductSeq(n),
     product_slug |-> slug_from_name(data.full_product_name),
     full_product_name |-> data.full_product_name]

\* create_product 118-133: the Product row (id is the fresh uuid4 of
\* TenantBase; the optional pass-through fields are left out)
NewProduct(id, tenantCtx, data, n) ==
    [id |-> id,
     tenant_id |-> tenantCtx,
     human_sku |-> format_human_sku(NormBrand(data), NormCategory(data),
                       NormSubcategory(data), NormQuantity(data), ProductSeq(n)),
     numeric_sku |-> format_numeric_sku(NormBrand(data), NormCategory(data),
                       NormSubcategory(data), NormQuantity(data), ProductSeq(n)),
     brand_code |-> NormBrand(data),
     category_code |-> NormCategory(data),
     subcategory_code |-> NormSubcategory(data),
     quantity_code |-> NormQuantity(data),
     product_seq |-> ProductSeq(n),
     product_slug |-> slug_from_name(data.full_product_name),
     full_product_name |-> data.full_product_name]

\* mutant: the table has no unique constraint
NoUniqueConstraint(table, row) == FALSE

\* uq_products_tenant_human_sku: the row collides with a row of the table
UniqueViolation(table, row) ==
    \E p \in table : p.tenant_id = row.tenant_id /\ p.human_sku = row.human_sku

(***************************************************************************)
(* State.                                                                  *)
(***************************************************************************)
VARIABLES
    counters,   \* committed product_counters: function key -> counter
    products,   \* committed products: set of rows
    pc,         \* position of each request in create_product
    tenant,     \* TenantContext.id of each request (from the token)
    body,       \* payload of each request (its name in Payload)
    selected,   \* result of the SELECT, while get_next_sequence runs
    seq,        \* value returned by get_next_sequence (0: not returned yet)
    wcounter,   \* flushed, uncommitted counter value of the request's key
    pred,       \* history: the requests that had ended when this one began
                \* (0 stands for the bulk import)
    ipc,        \* position of the bulk import (run_seed)
    isrc,       \* the skus.db the import reads (its name in SkusDb)
    itenant,    \* tenant_id the import writes under
    ipos,       \* number of skus.db rows the import has processed
    inew,       \* pending ProductCounter objects added to the import's session
    iloaded,    \* counter rows loaded into the import's session: key -> counter
    idirty,     \* keys of the loaded rows whose counter the import changed
    listed,     \* the last response of GET /products/: {} or {[tenant, rows]}
    wproduct,   \* flushed, uncommitted product row of each request: {} or {row}
    token,      \* tenant_id of the request's access token
    header,     \* the request's X-Tenant-Id header
    fin,        \* argument of the last call of a pure helper
    fout,       \* value that call returned
    dcounters,  \* desktop tool, table counters: function key -> counter
    dskus,      \* desktop tool, table skus: set of rows
    dnextid,    \* desktop tool, next AUTOINCREMENT id of skus
    dissued,    \* history: the desktop tool's creations and deletions, in order
    dresult,    \* desktop tool: what the last handler returned or raised
    drunning,   \* desktop tool: the window is open (initialize_db has run)
    dschema     \* desktop tool: the columns of the counters table of skus.db

ivars == <<ipc, isrc, itenant, ipos, inew, iloaded, idirty>>

\* the pure helpers' call and the desktop tool's database
fvars == <<fin, fout>>
dvars == <<dcounters, dskus, dnextid, dissued, dresult, drunning, dschema>>
avars == <<token, header>>
xvars == <<wproduct, avars, fvars, dvars>>

vars == <<counters, products, pc, tenant, body, selected, seq, wcounter, pred, ivars, listed,
          xvars>>

InFlight == {"select", "flush", "commit", "inserted"}

\* the X-Tenant-Id header of a request: absent, empty, or the text of a UUID,
\* which names a tenant in the form str() gives or in capitals
NoHeader == [tenant |-> "", form |-> "absent"]
EmptyHeader == [tenant |-> "", form |-> "empty"]
Headers ==
    {NoHeader, EmptyHeader}
        \cup [tenant : Tenants, form : {"canonical", "capitals"}]

\* str(tenant_id) of a UUID: lower-case hexadecimal digits with hyphens
UuidStr(tenant_id) == [tenant |-> tenant_id, form |-> "canonical"]

\* `if x_tenant_id`: None and the empty string are false
HeaderGiven(x_tenant_id) == x_tenant_id.form \notin {"absent", "empty"}

\* mutant: the header, when given, names the tenant of the context
get_tenant_from_header(user_tenant_id, x_tenant_id) ==
    IF HeaderGiven(x_tenant_id)
    THEN [status |-> 200, id |-> x_tenant_id.tenant]
    ELSE [status |-> 200, id |-> user_tenant_id]

\* get_tenant 49-59: 403 when the header is given and differs from
\* str(user.tenant_id); else the context of the token's tenant
get_tenant(user_tenant_id, x_tenant_id) ==
    IF HeaderGiven(x_tenant_id) /\ x_tenant_id # UuidStr(user_tenant_id)
    THEN [status |-> 403, id |-> ""]
    ELSE [status |-> 200, id |-> user_tenant_id]
Ended == {"committed", "failed", "aborted", "rejected", "forbidden"}

\* create_product's arguments and locals, computed once for each request
\* of the model: the validated payload and the key handed to the allocator
DataOf == [r \in AllRequests |-> ProductCreate(Payload(r.payload))]
KeyOf == [r \in AllRequests |-> AllocationKey(r.tenant, DataOf[r])]
ValidOf == [r \in AllRequests |-> Valid(Payload(r.payload))]

Request(t) == [tenant |-> tenant[t], payload |-> body[t]]
Data(t) == DataOf[Request(t)]
Key(t) == KeyOf[Request(t)]

\* the committed counter of a key, 0 when there is no row
CounterAt(k) == IF k \in DOMAIN counters THEN counters[k] ELSE 0

\* a concurrent transaction holds an uncommitted write of the counter row k
LockedByOther(t, k) ==
    \E u \in Reqs \ {t} : pc[u] \in InFlight /\ wcounter[u] # {} /\ Key(u) = k

\* READ COMMITTED: what a SELECT of request t on key k returns
Visible(t, k) ==
    IF wcounter[t] # {} THEN wcounter[t]
    ELSE IF k \in DOMAIN counters THEN {counters[k]} ELSE {}

Init ==
    /\ counters = <<>>
    /\ products = {}
    /\ pc = [t \in Reqs |-> "idle"]
    /\ tenant = [t \in Reqs |-> "tA"]
    /\ body = [t \in Reqs |-> "A1"]
    /\ selected = [t \in Reqs |-> {}]
    /\ seq = [t \in Reqs |-> 0]
    /\ wcounter = [t \in Reqs |-> {}]
    /\ pred = [t \in Reqs |-> {}]
    /\ ipc = "idle"
    /\ isrc = "one"
    /\ itenant = "tA"
    /\ ipos = 0
    /\ inew = <<>>
    /\ iloaded = <<>>
    /\ idirty = {}
    /\ listed = {}
    /\ wproduct = [t \in Reqs |-> {}]
    /\ token = [t \in Reqs |-> "tA"]
    /\ header = [t \in Reqs |-> NoHeader]
    /\ fin = [fn |-> "none", arg |-> <<>>]
    /\ fout = <<>>
    /\ dcounters = <<>>
    /\ dskus = {}
    /\ dnextid = 1
    /\ dissued = <<>>
    /\ dresult = [op |-> "none", id |-> 0, codes |-> <<>>, error |-> "", human_sku |-> <<>>,
                  numeric_sku |-> <<>>]
    /\ drunning = TRUE
    /\ dschema = "current"

(***************************************************************************)
(* Actions: one per database round trip of create_product.                 *)
(***************************************************************************)
\* post_product: a request arrives with its token's tenant and its payload,
\* one of the requests RS; a body that fails validation is answered 422
\* and create_product is not called
StartWith(t, RS, HS) ==
    /\ pc[t] = "idle"
    /\ \A u \in Reqs : u < t => pc[u] # "idle"
    /\ Cardinality({u \in Reqs : pc[u] \in InFlight}) < MaxActive
    /\ \E r \in RS, h \in HS :
        LET ctx == get_tenant(r.tenant, h) IN
        /\ token' = [token EXCEPT ![t] = r.tenant]
        /\ header' = [header EXCEPT ![t] = h]
        /\ IF ctx.status = 403
           THEN /\ pc' = [pc EXCEPT ![t] = "forbidden"]
                /\ UNCHANGED <<tenant, body>>
           ELSE /\ tenant' = [tenant EXCEPT ![t] = ctx.id]
                /\ body' = [body EXCEPT ![t] = r.payload]
                /\ pc' = [pc EXCEPT ![t] = IF ValidOf[[tenant |-> ctx.id, payload |-> r.payload]]
                                           THEN "select" ELSE "rejected"]
    /\ pred' = [pred EXCEPT ![t] = {u \in Reqs : pc[u] \in Ended}
                                      \cup (IF ipc = "done" THEN {0} ELSE {})]
    /\ UNCHANGED <<counters, products, selected, seq, wcounter, ivars, listed, wproduct,
                   fvars, dvars>>

\* the requests of the runs of the earlier sections carry no X-Tenant-Id
StartFrom(t, RS) == StartWith(t, RS, {NoHeader})

Start(t) == StartFrom(t, Requests)

\* get_next_sequence 47-55: SELECT the counter row (no lock)
Select(t) ==
    /\ pc[t] = "select"
    /\ selected' = [selected EXCEPT ![t] = Visible(t, Key(t))]
    /\ pc' = [pc EXCEPT ![t] = "flush"]
    /\ UNCHANGED <<counters, products, tenant, body, seq, wcounter, pred, ivars, listed, xvars>>

\* mutant: product_counters has no primary key, the second INSERT of a key
\* goes through
FlushCounterNoPrimaryKey(t) ==
    /\ pc[t] = "flush"
    /\ ~LockedByOther(t, Key(t))
    /\ wcounter' = [wcounter EXCEPT ![t] = {NextVal(selected[t])}]
    /\ seq' = [seq EXCEPT ![t] = NextVal(selected[t])]
    /\ pc' = [pc EXCEPT ![t] = "commit"]
    /\ selected' = [selected EXCEPT ![t] = {}]
    /\ UNCHANGED <<counters, products, tenant, body, pred, ivars, listed, xvars>>

\* get_next_sequence 56-71: INSERT the row with counter 1, or UPDATE it to
\* counter + 1; flush; return.  The statement waits for a concurrent writer
\* of the row; an INSERT of a key that has been committed meanwhile violates
\* the primary key and the request fails (the session is rolled back).
FlushCounter(t) ==
    /\ pc[t] = "flush"
    /\ ~LockedByOther(t, Key(t))
    /\ IF selected[t] = {} /\ Key(t) \in DOMAIN counters
       THEN /\ pc' = [pc EXCEPT ![t] = "failed"]
            /\ UNCHANGED <<wcounter, seq>>
       ELSE /\ wcounter' = [wcounter EXCEPT ![t] = {NextVal(selected[t])}]
            /\ seq' = [seq EXCEPT ![t] = NextVal(selected[t])]
            /\ pc' = [pc EXCEPT ![t] = "commit"]
    /\ selected' = [selected EXCEPT ![t] = {}]
    /\ UNCHANGED <<counters, products, tenant, body, pred, ivars, listed, xvars>>

\* mutant: COMMIT makes the counter durable and loses the product row
CommitDropsProduct(t) ==
    /\ pc[t] = "commit"
    /\ pc' = [pc EXCEPT ![t] = "committed"]
    /\ counters' = [k \in DOMAIN counters \cup {Key(t)} |->
                       IF k = Key(t) THEN CHOOSE n \in wcounter[t] : TRUE
                       ELSE counters[k]]
    /\ wcounter' = [wcounter EXCEPT ![t] = {}]
    /\ UNCHANGED <<products, tenant, body, selected, seq, pred, ivars, listed, xvars>>

\* mutant: a duplicate human_sku sends the request back to the allocator
CommitRetries(t) ==
    LET row == NewProduct(t, tenant[t], Data(t), seq[t]) IN
    /\ pc[t] = "commit"
    /\ IF UniqueViolation(products, row)
       THEN /\ pc' = [pc EXCEPT ![t] = "select"]
            /\ UNCHANGED <<counters, products>>
       ELSE /\ pc' = [pc EXCEPT ![t] = "committed"]
            /\ counters' = [k \in DOMAIN counters \cup {Key(t)} |->
                               IF k = Key(t) THEN CHOOSE n \in wcounter[t] : TRUE
                               ELSE counters[k]]
            /\ products' = products \cup {row}
    /\ wcounter' = [wcounter EXCEPT ![t] = {}]
    /\ UNCHANGED <<tenant, body, selected, seq, pred, ivars, listed, xvars>>

\* create_product 108-137, session.commit(): the flush INSERTs the product
\* row and COMMIT makes the counter write and the row durable together; a
\* duplicate (tenant_id, human_sku) raises IntegrityError instead and the
\* transaction is rolled back.  The two round trips taken as one step
\* (InsertProduct and CommitTx below take them one by one).
Commit(t) ==
    LET row == NewProduct(t, tenant[t], Data(t), seq[t]) IN
    /\ pc[t] = "commit"
    /\ IF UniqueViolation(products, row)
       THEN /\ pc' = [pc EXCEPT ![t] = "failed"]
            /\ UNCHANGED <<counters, products>>
       ELSE /\ pc' = [pc EXCEPT ![t] = "committed"]
            /\ counters' = [k \in DOMAIN counters \cup {Key(t)} |->
                               IF k = Key(t) THEN CHOOSE n \in wcounter[t] : TRUE
                               ELSE counters[k]]
            /\ products' = products \cup {row}
    /\ wcounter' = [wcounter EXCEPT ![t] = {}]
    /\ UNCHANGED <<tenant, body, selected, seq, pred, ivars, listed, xvars>>

\* the Product objects create_product builds (108-128), computed once for
\* each request of the model and each number the allocator can return to it
RowsOf ==
    [r \in AllRequests |-> [n \in 0..MaxReq |-> NewProduct(0, r.tenant, DataOf[r], n)]]

\* the Product of request t: NewProduct(t, tenant[t], Data(t), seq[t])
Row(t) == [RowsOf[Request(t)][seq[t]] EXCEPT !.id = t]

\* mutant: the INSERT of the product row waits for every transaction in
\* flight that is going to write the same (tenant_id, human_sku)
InsertProductWaitsForPending(t) ==
    /\ pc[t] = "commit"
    /\ LET row == Row(t) IN
       /\ ~\E u \in Reqs \ {t} :
             /\ pc[u] \in InFlight
             /\ UniqueViolation({Row(u)}, row)
       /\ IF UniqueViolation(products, row)
          THEN /\ pc' = [pc EXCEPT ![t] = "failed"]
               /\ wcounter' = [wcounter EXCEPT ![t] = {}]
               /\ UNCHANGED wproduct
          ELSE /\ pc' = [pc EXCEPT ![t] = "inserted"]
               /\ wproduct' = [wproduct EXCEPT ![t] = {row}]
               /\ UNCHANGED wcounter
    /\ UNCHANGED <<counters, products, tenant, body, selected, seq, pred, ivars, listed,
                   avars, fvars, dvars>>

\* session.commit() in its two database round trips.  First the flush: the
\* INSERT of the product row waits for a concurrent transaction that has
\* inserted, and not yet committed, a row with the same (tenant_id,
\* human_sku); a committed row with that pair raises IntegrityError
InsertProduct(t) ==
    /\ pc[t] = "commit"
    /\ LET row == Row(t) IN
       /\ ~\E u \in Reqs \ {t} : pc[u] \in InFlight /\ UniqueViolation(wproduct[u], row)
       /\ IF UniqueViolation(products, row)
          THEN /\ pc' = [pc EXCEPT ![t] = "failed"]
               /\ wcounter' = [wcounter EXCEPT ![t] = {}]
               /\ UNCHANGED wproduct
          ELSE /\ pc' = [pc EXCEPT ![t] = "inserted"]
               /\ wproduct' = [wproduct EXCEPT ![t] = {row}]
               /\ UNCHANGED wcounter
    /\ UNCHANGED <<counters, products, tenant, body, selected, seq, pred, ivars, listed,
                   avars, fvars, dvars>>

\* then COMMIT: the counter write and the product row become durable
CommitTx(t) ==
    /\ pc[t] = "inserted"
    /\ pc' = [pc EXCEPT ![t] = "committed"]
    /\ counters' = [k \in DOMAIN counters \cup {Key(t)} |->
                       IF k = Key(t) THEN CHOOSE n \in wcounter[t] : TRUE
                       ELSE counters[k]]
    /\ products' = products \cup wproduct[t]
    /\ wcounter' = [wcounter EXCEPT ![t] = {}]
    /\ wproduct' = [wproduct EXCEPT ![t] = {}]
    /\ UNCHANGED <<tenant, body, selected, seq, pred, ivars, listed, avars, fvars, dvars>>

\* mutant: the counter write survives the end of the session
AbortKeepsCounter(t) ==
    /\ pc[t] \in InFlight
    /\ counters' = [k \in DOMAIN counters \cup {Key(t)} |->
                       IF k = Key(t) /\ wcounter[t] # {}
                       THEN CHOOSE n \in wcounter[t] : TRUE
                       ELSE CounterAt(k)]
    /\ wcounter' = [wcounter EXCEPT ![t] = {}]
    /\ wproduct' = [wproduct EXCEPT ![t] = {}]
    /\ selected' = [selected EXCEPT ![t] = {}]
    /\ pc' = [pc EXCEPT ![t] = "aborted"]
    /\ UNCHANGED <<products, tenant, body, seq, pred, ivars, listed, avars, fvars, dvars>>

\* the request is cancelled or the connection fails before COMMIT: leaving
\* the session context (get_session) rolls the transaction back
Abort(t) ==
    /\ pc[t] \in InFlight
    /\ wcounter' = [wcounter EXCEPT ![t] = {}]
    /\ wproduct' = [wproduct EXCEPT ![t] = {}]
    /\ selected' = [selected EXCEPT ![t] = {}]
    /\ pc' = [pc EXCEPT ![t] = "aborted"]
    /\ UNCHANGED <<counters, products, tenant, body, seq, pred, ivars, listed, avars, fvars, dvars>>

(***************************************************************************)
(* Listing (GET /products/).                                               *)
(***************************************************************************)
\* mutant: the query has no WHERE clause
list_products_all(table, tenantCtx) == table

\* list_products 74-79: SELECT ... WHERE tenant_id = tenant.id
list_products(table, tenantCtx) == {p \in table : p.tenant_id = tenantCtx}

\* get_products: a caller whose token names tenant T lists the products;
\* the query runs in the request's own session and sees the committed rows
ListWith(T, h) ==
    /\ LET ctx == get_tenant(T, h) IN
       listed' = {[tenant |-> T, header |-> h, status |-> ctx.status,
                   rows |-> IF ctx.status = 403 THEN {}
                            ELSE list_products(products, ctx.id)]}
    /\ UNCHANGED <<counters, products, pc, tenant, body, selected, seq, wcounter, pred, ivars,
                   xvars>>

List(T) == ListWith(T, NoHeader)

(***************************************************************************)
(* Bulk import (scripts/seed_products_from_skus_db.py).  The whole import  *)
(* is one session: every row of skus.db goes through                       *)
(* ensure_counter_at_least and is added as a Product; nothing is flushed   *)
(* (autoflush is off) before the single session.commit() at the end.       *)
(***************************************************************************)
\* a row of skus.db as the desktop tool writes it (sr-sku-gen.py 512-536)
SkuRecord(brand_code, category_code, subcategory_code, quantity_code, n, name) ==
    [human_sku |-> format_human_sku(brand_code, category_code, subcategory_code,
                                    quantity_code, ProductSeq(n)),
     numeric_sku |-> format_numeric_sku(brand_code, category_code, subcategory_code,
                                        quantity_code, ProductSeq(n)),
     brand_code |-> brand_code,
     category_code |-> category_code,
     subcategory_code |-> subcategory_code,
     quantity_code |-> quantity_code,
     product_seq |-> ProductSeq(n),
     product_slug |-> slug_from_name(name),
     full_product_name |-> name]

\* the contents of skus.db, ORDER BY id
SkusDbOne ==
    << SkuRecord(<<"0", "0", "1">>, <<"0", "1">>, <<"1">>, <<"1">>, 2, <<"S", "2">>) >>

SkusDbTwo ==
    << SkuRecord(<<"0", "0", "1">>, <<"0", "1">>, <<"1">>, <<"1">>, 1, <<"S", "1">>),
       SkuRecord(<<"0", "0", "1">>, <<"0", "1">>, <<"1">>, <<"1">>, 2, <<"S", "2">>) >>

SkusDbThree ==
    << SkuRecord(<<"0", "0", "1">>, <<"0", "1">>, <<"1">>, <<"1">>, 3, <<"S", "3">>) >>

\* a skus.db that was not written by the desktop tool (read_skus_from_sqlite
\* 28-41 takes any SQLite file with a skus table): the product_seq of its
\* first row is not a number, the human_sku and numeric_sku of its second row
\* name another quantity code than the row's own
SkusDbForeign ==
    << [SkuRecord(<<"0", "0", "1">>, <<"0", "1">>, <<"1">>, <<"2">>, 1, <<"F", "1">>)
           EXCEPT !.product_seq = <<"A", "1">>,
                  !.human_sku = format_human_sku(<<"0", "0", "1">>, <<"0", "1">>, <<"1">>,
                                                 <<"2">>, <<"A", "1">>),
                  !.numeric_sku = format_numeric_sku(<<"0", "0", "1">>, <<"0", "1">>, <<"1">>,
                                                     <<"2">>, <<"A", "1">>)],
       [SkuRecord(<<"0", "0", "1">>, <<"0", "1">>, <<"1">>, <<"1">>, 5, <<"F", "2">>)
           EXCEPT !.human_sku = format_human_sku(<<"0", "0", "1">>, <<"0", "1">>, <<"1">>,
                                                 <<"3">>, ProductSeq(5)),
                  !.numeric_sku = format_numeric_sku(<<"0", "0", "1">>, <<"0", "1">>, <<"1">>,
                                                     <<"3">>, ProductSeq(5))] >>

SkusDb(name) ==
    CASE name = "one" -> SkusDbOne
      [] name = "two" -> SkusDbTwo
      [] name = "three" -> SkusDbThree
      [] name = "foreign" -> SkusDbForeign

SkusDbNames == {"one", "two"}

\* str.isdigit()
IsDigit(s) == Len(s) > 0 /\ \A i \in 1..Len(s) : s[i] \in Range(DigitChars)

RECURSIVE StrToInt(_)
\* int(s) of a string of digits
StrToInt(s) ==
    IF Len(s) = 0 THEN 0
    ELSE 10 * StrToInt(SubSeq(s, 1, Len(s) - 1))
         + (CHOOSE d \in 0..9 : DigitChars[d + 1] = s[Len(s)])

\* run_seed 102
SeqVal(r) == IF IsDigit(r.product_seq) THEN StrToInt(r.product_seq) ELSE 0

Max(a, b) == IF a >= b THEN a ELSE b

\* run_seed 112-127: the Product row of the i-th skus.db row
ImportedProduct(i, tenant_id, r) ==
    [id |-> 0 - i,
     tenant_id |-> tenant_id,
     human_sku |-> r.human_sku,
     numeric_sku |-> r.numeric_sku,
     brand_code |-> r.brand_code,
     category_code |-> r.category_code,
     subcategory_code |-> r.subcategory_code,
     quantity_code |-> r.quantity_code,
     product_seq |-> r.product_seq,
     product_slug |-> r.product_slug,
     full_product_name |-> r.full_product_name]

ImportRows == SkusDb(isrc)

\* the Product objects pending in the import's session
ImportPending == {ImportedProduct(i, itenant, ImportRows[i]) : i \in 1..ipos}

\* run_seed 88-99: the import reads skus.db (one of the files named in
\* names), opens its session and picks the tenant
ImportStartFrom(names, tenants) ==
    /\ ipc = "idle"
    /\ \E n \in names, tn \in tenants :
        /\ isrc' = n
        /\ itenant' = tn
    /\ ipc' = "ensure"
    /\ UNCHANGED <<counters, products, pc, tenant, body, selected, seq, wcounter, pred,
                   ipos, inew, iloaded, idirty, listed, xvars>>

ImportStart == ImportStartFrom(SkusDbNames, Tenants)

\* the state of the import's session: the pending new counters, the loaded
\* counter rows and the keys of the loaded rows it changed
Session == [new |-> inew, loaded |-> iloaded, dirty |-> idirty]

\* mutant: a new ProductCounter holds at_least itself
ensure_counter_at_least_exact(sess, k, at_least) ==
    LET cur == IF k \in DOMAIN sess.loaded THEN sess.loaded[k] ELSE CounterAt(k) IN
    IF k \in DOMAIN sess.loaded \/ k \in DOMAIN counters
    THEN [new |-> sess.new,
          loaded |-> [j \in DOMAIN sess.loaded \cup {k} |->
                         IF j = k THEN (IF cur <= at_least THEN at_least + 1 ELSE cur)
                         ELSE sess.loaded[j]],
          dirty |-> IF cur <= at_least THEN sess.dirty \cup {k} ELSE sess.dirty]
    ELSE [new |-> Append(sess.new, [key |-> k, counter |-> at_least]),
          loaded |-> sess.loaded,
          dirty |-> sess.dirty]

\* ensure_counter_at_least 54-85 in a session sess: SELECT the counter row;
\* without one add a new ProductCounter holding max(1, at_least + 1),
\* otherwise raise the loaded object's counter to at_least + 1 when it is
\* not above at_least.  A row the session has loaded before keeps its
\* in-memory counter; a pending object is not flushed, so the SELECT does
\* not find it.
ensure_counter_at_least(sess, k, at_least) ==
    LET cur == IF k \in DOMAIN sess.loaded THEN sess.loaded[k] ELSE CounterAt(k) IN
    IF k \in DOMAIN sess.loaded \/ k \in DOMAIN counters
    THEN [new |-> sess.new,
          loaded |-> [j \in DOMAIN sess.loaded \cup {k} |->
                         IF j = k THEN (IF cur <= at_least THEN at_least + 1 ELSE cur)
                         ELSE sess.loaded[j]],
          dirty |-> IF cur <= at_least THEN sess.dirty \cup {k} ELSE sess.dirty]
    ELSE [new |-> Append(sess.new, [key |-> k, counter |-> Max(1, at_least + 1)]),
          loaded |-> sess.loaded,
          dirty |-> sess.dirty]

\* the counter key of a skus.db row imported under tenant_id
ImportKey(tenant_id, r) ==
    CounterKey(tenant_id, r.brand_code, r.category_code,
               r.subcategory_code, r.quantity_code)

\* run_seed 101-128, one row: ensure_counter_at_least with the row's
\* sequence, then the Product is added to the session
ImportEnsure ==
    /\ ipc = "ensure"
    /\ ipos < Len(ImportRows)
    /\ LET r == ImportRows[ipos + 1]
           after == ensure_counter_at_least(Session, ImportKey(itenant, r), SeqVal(r))
       IN /\ inew' = after.new
          /\ iloaded' = after.loaded
          /\ idirty' = after.dirty
    /\ ipos' = ipos + 1
    /\ ipc' = IF ipos + 1 = Len(ImportRows) THEN "commit" ELSE "ensure"
    /\ UNCHANGED <<counters, products, pc, tenant, body, selected, seq, wcounter, pred,
                   isrc, itenant, listed, xvars>>

\* the counter rows the import's flush writes
ImportWrites == {inew[i].key : i \in 1..Len(inew)} \cup idirty

\* the flush fails: two pending counters with one primary key, a pending
\* counter whose key has been committed meanwhile, or a product row that
\* breaks uq_products_tenant_human_sku
ImportIntegrityError ==
    \/ \E i, j \in 1..Len(inew) : i # j /\ inew[i].key = inew[j].key
    \/ \E i \in 1..Len(inew) : inew[i].key \in DOMAIN counters
    \/ \E p \in ImportPending : UniqueViolation(products, p)
    \/ \E p, q \in ImportPending : p.id # q.id /\ UniqueViolation({q}, p)

\* run_seed 129: session.commit() flushes the INSERTs and UPDATEs of the
\* counters and the INSERTs of the products, then COMMITs; the flush waits
\* for concurrent writers of its counter rows; on IntegrityError the script
\* ends and the session is rolled back
ImportCommit ==
    /\ ipc = "commit"
    /\ \A k \in ImportWrites :
         ~\E u \in Reqs : pc[u] \in InFlight /\ wcounter[u] # {} /\ Key(u) = k
    /\ IF ImportIntegrityError
       THEN /\ ipc' = "failed"
            /\ UNCHANGED <<counters, products>>
       ELSE /\ ipc' = "done"
            /\ counters' = [k \in DOMAIN counters \cup ImportWrites |->
                               IF k \in idirty THEN iloaded[k]
                               ELSE IF \E i \in 1..Len(inew) : inew[i].key = k
                                    THEN inew[CHOOSE i \in 1..Len(inew) : inew[i].key = k].counter
                                    ELSE counters[k]]
            /\ products' = products \cup ImportPending
    /\ inew' = <<>>
    /\ iloaded' = <<>>
    /\ idirty' = {}
    /\ UNCHANGED <<pc, tenant, body, selected, seq, wcounter, pred, isrc, itenant, ipos,
                   listed, xvars>>

Next ==
    \E t \in Reqs :
        \/ Start(t)
        \/ Select(t)
        \/ FlushCounter(t)
        \/ Commit(t)
        \/ Abort(t)

Spec == Init /\ [][Next]_vars

\* live registrations next to one bulk import
StartLive(t) == t <= MaxLive /\ Start(t)

NextImport ==
    \/ \E t \in Reqs :
          \/ StartLive(t)
          \/ Select(t)
          \/ FlushCounter(t)
          \/ Commit(t)
          \/ Abort(t)
    \/ ImportStart
    \/ ImportEnsure
    \/ ImportCommit

SpecImport == Init /\ [][NextImport]_vars

\* registrations of both tenants next to listings
StartList(t) == t <= MaxListReq /\ Start(t)

NextList ==
    \/ \E t \in Reqs :
          \/ StartList(t)
          \/ Select(t)
          \/ FlushCounter(t)
          \/ Commit(t)
          \/ Abort(t)
    \/ \E T \in Tenants : List(T)

SpecList == Init /\ [][NextList]_vars

\* live registrations of one key next to the import of a skus.db whose
\* record of that key carries sequence 3, or of one the desktop tool did not
\* write
StartSeed(t) == t <= MaxSeedLive /\ StartFrom(t, SeedRequests)

ImportStartSeed == ImportStartFrom({"three", "foreign"}, {"tA"})

NextSeed ==
    \/ \E t \in Reqs :
          \/ StartSeed(t)
          \/ Select(t)
          \/ FlushCounter(t)
          \/ Commit(t)
          \/ Abort(t)
    \/ ImportStartSeed
    \/ ImportEnsure
    \/ ImportCommit

SpecSeed == Init /\ [][NextSeed]_vars

\* registrations of one tenant, one after another, whose bodies spell the
\* codes in different ways or fail validation
StartCodes(t) ==
    /\ t <= MaxCodeReq
    /\ \A u \in Reqs : pc[u] \notin InFlight
    /\ StartFrom(t, CodeRequests)

NextCodes ==
    \E t \in Reqs :
        \/ StartCodes(t)
        \/ Select(t)
        \/ FlushCounter(t)
        \/ Commit(t)
        \/ Abort(t)

SpecCodes == Init /\ [][NextCodes]_vars

\* registrations of one tenant, one after another, whose codes hold a '-'
StartDash(t) ==
    /\ t <= MaxDashReq
    /\ \A u \in Reqs : pc[u] \notin InFlight
    /\ StartFrom(t, DashRequests)

NextDash ==
    \E t \in Reqs :
        \/ StartDash(t)
        \/ Select(t)
        \/ FlushCounter(t)
        \/ Commit(t)
        \/ Abort(t)

SpecDash == Init /\ [][NextDash]_vars

\* concurrent registrations of one tenant whose codes hold a '-', the two
\* round trips of session.commit() being separate steps
StartIndex(t) == t <= MaxIndexReq /\ StartFrom(t, DashRequests)

NextIndex ==
    \E t \in Reqs :
        \/ StartIndex(t)
        \/ Select(t)
        \/ FlushCounter(t)
        \/ InsertProduct(t)
        \/ CommitTx(t)
        \/ Abort(t)

SpecIndex == Init /\ [][NextIndex]_vars

\* overlapping registrations on equal and on different keys, each database
\* round trip a step.  The event loop resumes every coroutine whose awaited
\* statement has returned, and PostgreSQL serves a statement that waits for
\* no lock: a step of a request that stays possible is taken (weak
\* fairness); a cancellation (Abort) may or may not happen.
StartFair(t) == t <= MaxFairReq /\ StartFrom(t, DashRequests)

NextFair ==
    \E t \in Reqs :
        \/ StartFair(t)
        \/ Select(t)
        \/ FlushCounter(t)
        \/ InsertProduct(t)
        \/ CommitTx(t)
        \/ Abort(t)

SpecFair ==
    /\ Init /\ [][NextFair]_vars
    /\ \A t \in Reqs :
          /\ WF_vars(Select(t))
          /\ WF_vars(FlushCounter(t))
          /\ WF_vars(InsertProduct(t))
          /\ WF_vars(CommitTx(t))

\* registrations with codes longer than the format's fields, one after the
\* other
StartWide(t) ==
    /\ t <= MaxWideReq
    /\ \A u \in Reqs : pc[u] \notin InFlight
    /\ StartFrom(t, WideRequests)

NextWide ==
    \E t \in Reqs :
        \/ StartWide(t)
        \/ Select(t)
        \/ FlushCounter(t)
        \/ Commit(t)
        \/ Abort(t)

SpecWide == Init /\ [][NextWide]_vars

\* requests of both tenants with every X-Tenant-Id header, one after the
\* other, and listings
TenantRequests ==
    { [tenant |-> "tA", payload |-> "A1"],
      [tenant |-> "tB", payload |-> "A1"] }

StartTenant(t) ==
    /\ t <= MaxTenantReq
    /\ \A u \in Reqs : pc[u] \notin InFlight
    /\ StartWith(t, TenantRequests, Headers)

ListTenant == \E T \in Tenants, h \in Headers : ListWith(T, h)

NextTenant ==
    \/ \E t \in Reqs :
          \/ StartTenant(t)
          \/ Select(t)
          \/ FlushCounter(t)
          \/ Commit(t)
          \/ Abort(t)
    \/ ListTenant

SpecTenant == Init /\ [][NextTenant]_vars

(***************************************************************************)
(* The desktop tool (sr-sku-gen.py): one user, one SQLite connection, the  *)
(* tables skus and counters of skus.db.  Every handler runs to its end     *)
(* before the next one starts.                                             *)
(***************************************************************************)
\* the codes the combo boxes of the form hand over (keys of VENDOR_MAP,
\* CATEGORY_MAP, its subcategories and QUANTITY_MAP)
DesktopCodes ==
    { <<<<"0", "0", "1">>, <<"0", "1">>, <<"1">>, q>> : q \in {<<"1">>, <<"2">>} }

\* the product name typed into the form
DesktopName == <<"N">>

\* create_sku_record 516-520, update_sku_record 622-625: the codes normalised
DesktopNorm(codes) ==
    <<Zfill(codes[1], 3), Zfill(codes[2], 2), LastChar(codes[3]), LastChar(codes[4])>>

\* the counter of a key of the counters table, 0 without a row
DesktopCounterAt(k) == IF k \in DOMAIN dcounters THEN dcounters[k] ELSE 0

\* a row of skus
DesktopRow(id, k, product_seq, name) ==
    [id |-> id,
     human_sku |-> format_human_sku(k[1], k[2], k[3], k[4], product_seq),
     numeric_sku |-> format_numeric_sku(k[1], k[2], k[3], k[4], product_seq),
     brand_code |-> k[1],
     category_code |-> k[2],
     subcategory_code |-> k[3],
     quantity_code |-> k[4],
     product_seq |-> product_seq,
     product_slug |-> slug_from_name(name),
     full_product_name |-> name]

\* human_sku TEXT UNIQUE, numeric_sku TEXT UNIQUE: the row collides with
\* another row of the table
DesktopIntegrityError(table, row) ==
    \E r \in table : r.id # row.id
                     /\ (r.human_sku = row.human_sku \/ r.numeric_sku = row.numeric_sku)

\* what a handler returned (error "") or raised
DesktopResult(op, codes, error, row) ==
    [op |-> op, id |-> row.id, codes |-> codes, error |-> error,
     human_sku |-> IF error = "" THEN row.human_sku ELSE <<>>,
     numeric_sku |-> IF error = "" THEN row.numeric_sku ELSE <<>>]

\* the positions of the creations in the history
DesktopCreates == {i \in 1..Len(dissued) : dissued[i].op = "create"}

\* the history entry of the deletion of a row
DesktopDeleted(existing) ==
    [op |-> "delete",
     key |-> <<existing.brand_code, existing.category_code,
               existing.subcategory_code, existing.quantity_code>>,
     seq |-> 0,
     id |-> existing.id]

\* mutant: the counter is written with the row, so a failed INSERT leaves it
create_sku_record_one_commit(codes) ==
    LET k == DesktopNorm(codes)
        n == DesktopCounterAt(k) + 1
        row == DesktopRow(dnextid, k, ProductSeq(n), DesktopName)
    IN /\ drunning
       /\ Cardinality(DesktopCreates) < MaxDesktopSaves
       /\ dresult' = DesktopResult("create", codes,
                                   IF DesktopIntegrityError(dskus, row)
                                   THEN "IntegrityError" ELSE "", row)
       /\ UNCHANGED <<drunning, dschema>>
       /\ IF DesktopIntegrityError(dskus, row)
          THEN /\ dissued' = Append(dissued, [op |-> "create", key |-> k, seq |-> n, id |-> 0])
               /\ UNCHANGED <<dcounters, dskus, dnextid>>
          ELSE /\ dcounters' = [j \in DOMAIN dcounters \cup {k} |->
                                   IF j = k THEN n ELSE dcounters[j]]
               /\ dskus' = dskus \cup {row}
               /\ dnextid' = dnextid + 1
               /\ dissued' = Append(dissued, [op |-> "create", key |-> k, seq |-> n, id |-> dnextid])
       /\ UNCHANGED <<counters, products, pc, tenant, body, selected, seq, wcounter, pred,
                      ivars, listed, wproduct, avars, fvars>>

\* save_sku 865-887, create_sku_record 512-536: the codes are normalised;
\* get_next_sequence 491-509 writes the counter (1 for a new key, counter + 1
\* otherwise) and commits it; then the row is INSERTed and committed, or the
\* INSERT raises IntegrityError, which save_sku reports
create_sku_record(codes) ==
    LET k == DesktopNorm(codes)
        n == DesktopCounterAt(k) + 1
        row == DesktopRow(dnextid, k, ProductSeq(n), DesktopName)
    IN /\ drunning
       /\ Cardinality(DesktopCreates) < MaxDesktopSaves
       /\ dresult' = DesktopResult("create", codes,
                                   IF DesktopIntegrityError(dskus, row)
                                   THEN "IntegrityError" ELSE "", row)
       /\ UNCHANGED <<drunning, dschema>>
       /\ dcounters' = [j \in DOMAIN dcounters \cup {k} |->
                           IF j = k THEN n ELSE dcounters[j]]
       /\ IF DesktopIntegrityError(dskus, row)
          THEN /\ dissued' = Append(dissued, [op |-> "create", key |-> k, seq |-> n, id |-> 0])
               /\ UNCHANGED <<dskus, dnextid>>
          ELSE /\ dskus' = dskus \cup {row}
               /\ dnextid' = dnextid + 1
               /\ dissued' = Append(dissued, [op |-> "create", key |-> k, seq |-> n, id |-> dnextid])
       /\ UNCHANGED <<counters, products, pc, tenant, body, selected, seq, wcounter, pred,
                      ivars, listed, wproduct, avars, fvars>>

\* mutant: an update takes a new number for the new codes
update_sku_record_reallocates(sku_id, codes) ==
    /\ drunning
    /\ IF \E existing \in dskus : existing.id = sku_id
       THEN LET existing == CHOOSE r \in dskus : r.id = sku_id
                k == DesktopNorm(codes)
                n == DesktopCounterAt(k) + 1
                row == DesktopRow(sku_id, k, ProductSeq(n), DesktopName)
            IN /\ dcounters' = [j \in DOMAIN dcounters \cup {k} |->
                                   IF j = k THEN n ELSE dcounters[j]]
               /\ IF DesktopIntegrityError(dskus, row)
                  THEN /\ dskus' = dskus
                       /\ dresult' = DesktopResult("update", codes, "IntegrityError", row)
                  ELSE /\ dskus' = (dskus \ {existing}) \cup {row}
                       /\ dresult' = DesktopResult("update", codes, "", row)
       ELSE /\ dskus' = dskus
            /\ dcounters' = dcounters
            /\ dresult' = [op |-> "update", id |-> sku_id, codes |-> codes,
                           error |-> "ValueError",
                           human_sku |-> <<>>, numeric_sku |-> <<>>]
    /\ UNCHANGED <<dnextid, dissued, drunning, dschema>>
    /\ UNCHANGED <<counters, products, pc, tenant, body, selected, seq, wcounter, pred,
                   ivars, listed, wproduct, avars, fvars>>

\* save_edited_entry 1116-1134, update_sku_record 617-648: the row keeps its
\* product_seq and gets the new codes and the SKUs composed from them; the
\* UPDATE raises IntegrityError when another row carries one of the SKUs;
\* without a row of that id the function raises ValueError before any write
update_sku_record(sku_id, codes) ==
    /\ drunning
    /\ IF \E existing \in dskus : existing.id = sku_id
       THEN LET existing == CHOOSE r \in dskus : r.id = sku_id
                row == DesktopRow(sku_id, DesktopNorm(codes), existing.product_seq,
                                  DesktopName)
            IN IF DesktopIntegrityError(dskus, row)
               THEN /\ dskus' = dskus
                    /\ dresult' = DesktopResult("update", codes, "IntegrityError", row)
               ELSE /\ dskus' = (dskus \ {existing}) \cup {row}
                    /\ dresult' = DesktopResult("update", codes, "", row)
       ELSE /\ dskus' = dskus
            /\ dresult' = [op |-> "update", id |-> sku_id, codes |-> codes,
                           error |-> "ValueError",
                           human_sku |-> <<>>, numeric_sku |-> <<>>]
    /\ UNCHANGED <<dcounters, dnextid, dissued, drunning, dschema>>
    /\ UNCHANGED <<counters, products, pc, tenant, body, selected, seq, wcounter, pred,
                   ivars, listed, wproduct, avars, fvars>>

\* mutant: deleting the newest row of a key gives its number back
delete_sku_record_recycles(sku_id) ==
    /\ drunning
    /\ \E existing \in dskus :
        /\ existing.id = sku_id
        /\ dskus' = dskus \ {existing}
        /\ LET k == <<existing.brand_code, existing.category_code,
                      existing.subcategory_code, existing.quantity_code>>
           IN dcounters' = [j \in DOMAIN dcounters |->
                               IF j = k /\ existing.product_seq = ProductSeq(dcounters[j])
                               THEN dcounters[j] - 1
                               ELSE dcounters[j]]
        /\ dissued' = Append(dissued, DesktopDeleted(existing))
        /\ dresult' = DesktopResult("delete", <<>>, "", existing)
    /\ UNCHANGED <<dnextid, drunning, dschema>>
    /\ UNCHANGED <<counters, products, pc, tenant, body, selected, seq, wcounter, pred,
                   ivars, listed, wproduct, avars, fvars>>

\* delete_selected_entry 1136-1164, delete_sku_record 651-659: DELETE FROM
\* skus WHERE id = ?, nothing else
delete_sku_record(sku_id) ==
    /\ drunning
    /\ \E existing \in dskus :
        /\ existing.id = sku_id
        /\ dskus' = dskus \ {existing}
        /\ dissued' = Append(dissued, DesktopDeleted(existing))
        /\ dresult' = DesktopResult("delete", <<>>, "", existing)
    /\ UNCHANGED <<dcounters, dnextid, drunning, dschema>>
    /\ UNCHANGED <<counters, products, pc, tenant, body, selected, seq, wcounter, pred,
                   ivars, listed, wproduct, avars, fvars>>

\* the ids AUTOINCREMENT has handed out
DesktopIds == 1..(dnextid - 1)

NextDesktop ==
    \/ \E codes \in DesktopCodes : create_sku_record(codes)
    \/ \E sku_id \in DesktopIds, codes \in DesktopCodes : update_sku_record(sku_id, codes)
    \/ \E sku_id \in DesktopIds : delete_sku_record(sku_id)

SpecDesktop == Init /\ [][NextDesktop]_vars

\* the codes the form can hand over in the runs with previews: those of
\* DesktopCodes and category 02 with its subcategory 10 (CATEGORY_MAP 55-68)
DesktopSelections ==
    DesktopCodes \cup { <<<<"0", "0", "1">>, <<"0", "2">>, <<"1", "0">>, <<"1">>>> }

\* peek_next_sequence 819-833: the counter of the key made of the padded
\* brand and category and of the subcategory and quantity as selected, plus
\* 1; 1 without a row
peek_next_sequence(codes) ==
    DesktopCounterAt(<<Zfill(codes[1], 3), Zfill(codes[2], 2), codes[3], codes[4]>>) + 1

\* preview_sku 848-863: the SKUs composed from the padded brand and category,
\* the subcategory and quantity as selected and the peeked sequence are
\* written to the output pane
preview_sku(codes) ==
    /\ drunning
    /\ LET product_seq == ProductSeq(peek_next_sequence(codes)) IN
       dresult' = [op |-> "preview", id |-> 0, codes |-> codes, error |-> "",
                   human_sku |-> format_human_sku(Zfill(codes[1], 3), Zfill(codes[2], 2),
                                                  codes[3], codes[4], product_seq),
                   numeric_sku |-> format_numeric_sku(Zfill(codes[1], 3), Zfill(codes[2], 2),
                                                      codes[3], codes[4], product_seq)]
    /\ UNCHANGED <<dcounters, dskus, dnextid, dissued, drunning, dschema>>
    /\ UNCHANGED <<counters, products, pc, tenant, body, selected, seq, wcounter, pred,
                   ivars, listed, wproduct, avars, fvars>>

SaveWithPreview(codes) ==
    Cardinality(DesktopCreates) < MaxPreviewSaves /\ create_sku_record(codes)

NextPreview ==
    \E codes \in DesktopSelections :
        \/ preview_sku(codes)
        \/ SaveWithPreview(codes)

SpecPreview == Init /\ [][NextPreview]_vars

\* closeEvent 790-798: the window is closed and with it the connection
closeEvent ==
    /\ drunning
    /\ drunning' = FALSE
    /\ UNCHANGED <<dcounters, dskus, dnextid, dissued, dresult, dschema>>
    /\ UNCHANGED <<counters, products, pc, tenant, body, selected, seq, wcounter, pred,
                   ivars, listed, wproduct, avars, fvars>>

\* a skus.db left by an earlier version of the tool, the ones that
\* migrate_counters_table 344-368 and migrate_skus_table 371-417 are written
\* for: its counters table has no subcategory_code and quantity_code columns
\* and numbers the rows of one brand and category; its skus table has the
\* columns of today (schema "legacy_counters") or lacks one ("legacy_both")
DesktopLegacyFile(schema) ==
    [skus |-> {DesktopRow(1, <<<<"0", "0", "1">>, <<"0", "1">>, <<"1">>, <<"1">>>>,
                          ProductSeq(1), DesktopName)},
     counters |-> [k \in {<<<<"0", "0", "1">>, <<"0", "1">>>>} |-> 1],
     nextid |-> 2,
     schema |-> schema]

\* while the tool is closed the user puts that skus.db in its place
RestoreLegacyFile ==
    /\ ~drunning
    /\ dschema = "current"
    /\ \E schema \in {"legacy_counters", "legacy_both"} :
          /\ dskus' = DesktopLegacyFile(schema).skus
          /\ dcounters' = DesktopLegacyFile(schema).counters
          /\ dnextid' = DesktopLegacyFile(schema).nextid
          /\ dschema' = DesktopLegacyFile(schema).schema
    /\ UNCHANGED <<dissued, dresult, drunning>>
    /\ UNCHANGED <<counters, products, pc, tenant, body, selected, seq, wcounter, pred,
                   ivars, listed, wproduct, avars, fvars>>

\* migrate_counters_table 344-368: a counters table without subcategory_code
\* or quantity_code is dropped, whatever the skus table holds
migrate_counters_table(cs, schema) ==
    IF schema \in {"legacy_counters", "legacy_both"} THEN <<>> ELSE cs

\* migrate_skus_table 371-417: a skus table that lacks a required column is
\* dropped and its rows are not restored
migrate_skus_table(rows, schema) ==
    IF schema = "legacy_both" THEN {} ELSE rows

\* MainWindow.__init__ 683-691, initialize_db 420-469: the tool is started;
\* both migrations run, then CREATE TABLE IF NOT EXISTS makes the missing
\* tables, empty
initialize_db ==
    /\ ~drunning
    /\ drunning' = TRUE
    /\ dskus' = migrate_skus_table(dskus, dschema)
    /\ dcounters' = migrate_counters_table(dcounters, dschema)
    /\ dnextid' = IF dschema = "legacy_both" THEN 1 ELSE dnextid
    /\ dschema' = "current"
    /\ UNCHANGED <<dissued, dresult>>
    /\ UNCHANGED <<counters, products, pc, tenant, body, selected, seq, wcounter, pred,
                   ivars, listed, wproduct, avars, fvars>>

SaveWithRestart(codes) ==
    Cardinality(DesktopCreates) < MaxStartSaves /\ create_sku_record(codes)

NextStart ==
    \/ \E codes \in DesktopCodes : SaveWithRestart(codes)
    \/ closeEvent
    \/ RestoreLegacyFile
    \/ initialize_db

SpecStart == Init /\ [][NextStart]_vars

(***************************************************************************)
(* Calls of the pure helpers: slug_from_name on every name of up to        *)
(* MaxNameLen characters of SlugAlphabet and on the name of the            *)
(* specification's example; the two composers on every five-tuple of       *)
(* fields of the format's widths and on some whose brand or category is    *)
(* wider or holds a '-'.  A run is one call.                               *)
(***************************************************************************)
SlugAlphabet == {"A", "a", "1", " ", "-", "!", CapitalIDot, CombiningDot, DoubleStruckC}

SeqsUpTo(S, n) == UNION {[1..k -> S] : k \in 0..n}

ShinRamyun == <<"S", "h", "i", "n", " ", "R", "a", "m", "y", "u", "n", "!", "!">>

SlugNames == SeqsUpTo(SlugAlphabet, MaxNameLen) \cup {ShinRamyun}

SlugCall ==
    /\ fin.fn = "none"
    /\ \E name \in SlugNames :
        /\ fin' = [fn |-> "slug_from_name", arg |-> name]
        /\ fout' = slug_from_name(name)
    /\ UNCHANGED <<counters, products, pc, tenant, body, selected, seq, wcounter, pred, ivars,
                   listed, wproduct, avars, dvars>>

SpecSlug == Init /\ [][SlugCall]_vars

FieldChars == {"0", "1"}

ComposeSeqs == {ProductSeq(n) : n \in 1..MaxComposeSeq} \cup {ProductSeq(100)}

\* fields as create_product hands them over for codes within the widths
FixedWidthInputs ==
    {<<b, c, s, q, n>> : b \in [1..3 -> FieldChars], c \in [1..2 -> FieldChars],
                         s \in [1..1 -> FieldChars], q \in [1..1 -> FieldChars],
                         n \in ComposeSeqs}

\* fields as create_product hands them over for wider codes, with a '-' or not
WideInputs ==
    {<<b, c, <<"1">>, <<"1">>, ProductSeq(1)>> :
        <<b, c>> \in {<<<<"0", "0", "1", "-", "1">>, <<"0", "1">>>>,
                      <<<<"0", "0", "1">>, <<"1", "-", "0", "1">>>>,
                      <<<<"0", "0", "1", "0">>, <<"1", "1">>>>,
                      <<<<"0", "0", "1">>, <<"0", "1", "1">>>>}}

ComposeInputs == FixedWidthInputs \cup WideInputs

Compose(x) ==
    [human_sku |-> format_human_sku(x[1], x[2], x[3], x[4], x[5]),
     numeric_sku |-> format_numeric_sku(x[1], x[2], x[3], x[4], x[5])]

ComposeCall ==
    /\ fin.fn = "none"
    /\ \E x \in ComposeInputs :
        /\ fin' = [fn |-> "format_sku", arg |-> x]
        /\ fout' = Compose(x)
    /\ UNCHANGED <<counters, products, pc, tenant, body, selected, seq, wcounter, pred, ivars,
                   listed, wproduct, avars, dvars>>

SpecCompose == Init /\ [][ComposeCall]_vars

(***************************************************************************)
(* History predicates.                                                     *)
(***************************************************************************)
Started(t) == pc[t] # "idle"

\* get_next_sequence has returned a value to request t
Returned(t) == seq[t] # 0

\* neither request had ended when the other began
Concurrent(t, u) ==
    /\ t # u
    /\ Started(t) /\ Started(u)
    /\ t \notin pred[u] /\ u \notin pred[t]

\* the tenant and the normalised codes of each request of the model
CodesOf ==
    [r \in AllRequests |->
        <<r.tenant, NormBrand(DataOf[r]), NormCategory(DataOf[r]),
          NormSubcategory(DataOf[r]), NormQuantity(DataOf[r])>>]

\* the same tenant and the same normalised codes
SameCodes(t, u) == CodesOf[Request(t)] = CodesOf[Request(u)]

\* the counter key a product row belongs to
RowKey(p) ==
    <<p.tenant_id, p.brand_code, p.category_code, p.subcategory_code, p.quantity_code>>

(***************************************************************************)
(* C1: two allocation requests on the same key that run concurrently and   *)
(* both return a value (neither being cancelled) return different numbers. *)
(***************************************************************************)
C1_ConcurrentAllocationsDistinct ==
    \A t, u \in Reqs :
        ( /\ Concurrent(t, u)
          /\ Key(t) = Key(u)
          /\ Returned(t) /\ Returned(u)
          /\ pc[t] # "aborted" /\ pc[u] # "aborted" )
        => seq[t] # seq[u]

(***************************************************************************)
(* C2: when all K allocation requests made on a key have returned and none *)
(* of them has aborted, the numbers they returned are exactly 1..K.        *)
(***************************************************************************)
C2_ConcurrentGapless ==
    \A t \in Reqs :
        LET R == {u \in Reqs : Started(u) /\ Key(u) = Key(t)} IN
        (Started(t) /\ \A u \in R : pc[u] \in {"commit", "committed"})
        => {seq[u] : u \in R} = 1..Cardinality(R)

(***************************************************************************)
(* C3: an allocation that finds no counter row creates it with 1 and       *)
(* returns 1; one that finds counter N stores N+1 and returns N+1; the     *)
(* value returned is the counter the caller's transaction sees afterwards. *)
(***************************************************************************)
C3_AllocateNext ==
    [][ \A t \in Reqs :
          ( /\ pc[t] = "flush"
            /\ pc'[t] \notin {"flush", "aborted"}
            /\ selected[t] = Visible(t, Key(t)) )
          => /\ pc'[t] = "commit"
             /\ seq'[t] = CounterAt(Key(t)) + 1
             /\ wcounter'[t] = {seq'[t]} ]_vars

C3_Witness ==
    \E t, u \in Reqs :
        /\ pc[t] = "commit" /\ seq[t] = 2 /\ wcounter[t] = {2}
        /\ CounterAt(Key(t)) = 1
        /\ pc[u] = "commit" /\ seq[u] = 1 /\ wcounter[u] = {1}
        /\ CounterAt(Key(u)) = 0

(***************************************************************************)
(* C4: in a run whose requests execute one after another, the k-th         *)
(* committed allocation on a key returns k.                                *)
(***************************************************************************)
C4_SequentialGapless ==
    (\A t, u \in Reqs : ~Concurrent(t, u))
    => \A t \in Reqs :
         pc[t] = "committed"
         => seq[t] = 1 + Cardinality({u \in Reqs :
                            u < t /\ pc[u] = "committed" /\ Key(u) = Key(t)})

C4_Witness ==
    /\ \A t, u \in Reqs : ~Concurrent(t, u)
    /\ \A t \in Reqs : pc[t] = "committed" /\ Key(t) = Key(1) /\ seq[t] = t

(***************************************************************************)
(* C5: a request that has no concurrent request with its own tenant and    *)
(* codes receives 1 + the number of registrations committed before it with *)
(* that tenant and those codes, whatever requests on other keys do, before *)
(* or during it.                                                           *)
(***************************************************************************)
C5_KeyIsolation ==
    \A t \in Reqs :
        ( /\ Returned(t)
          /\ \A u \in Reqs : SameCodes(t, u) => ~Concurrent(t, u) )
        => seq[t] = 1 + Cardinality({u \in Reqs :
                           u < t /\ pc[u] = "committed" /\ SameCodes(t, u)})

C5_Witness ==
    \E t, u \in Reqs :
        /\ Concurrent(t, u) /\ ~SameCodes(t, u) /\ tenant[t] = tenant[u]
        /\ pc[t] = "committed" /\ seq[t] = 2
        /\ pc[u] = "committed" /\ seq[u] = 1

(***************************************************************************)
(* C6: the product rows of one tenant and one code combination carry the   *)
(* sequences "01", "02", ... of their own, whatever other tenants register *)
(* under the same codes.                                                   *)
(***************************************************************************)
C6_TenantInKey ==
    \A p \in products :
        LET mine == {q \in products : RowKey(q) = RowKey(p)} IN
        {q.product_seq : q \in mine} = {ProductSeq(i) : i \in 1..Cardinality(mine)}

C6_Witness ==
    \E p, q, r \in products :
        /\ p.tenant_id = "tA" /\ q.tenant_id = "tB" /\ r.tenant_id = "tA"
        /\ p.human_sku = q.human_sku
        /\ p.product_seq = <<"0", "1">> /\ q.product_seq = <<"0", "1">>
        /\ RowKey(r) = RowKey(p) /\ r.product_seq = <<"0", "2">>
        /\ q.id > r.id

(***************************************************************************)
(* C7: a registration changes the durable state only by its COMMIT, which  *)
(* makes the counter increment and the product row durable in one step; a  *)
(* registration that ends in any other way leaves the durable counters and *)
(* products exactly as they were.                                          *)
(***************************************************************************)
C7_AtomicRegistration ==
    [][ /\ \A t \in Reqs :
             (pc[t] \in InFlight /\ pc'[t] \in Ended)
             => IF pc'[t] = "committed"
                THEN /\ Key(t) \in DOMAIN counters'
                     /\ counters'[Key(t)] = seq[t]
                     /\ counters'[Key(t)] > CounterAt(Key(t))
                     /\ \E p \in products' \ products : p.id = t
                ELSE counters' = counters /\ products' = products
        /\ (counters' # counters \/ products' # products)
             => \E t \in Reqs : pc[t] = "commit" /\ pc'[t] = "committed" ]_vars

C7_Witness ==
    \E t \in Reqs :
        /\ pc[t] = "aborted" /\ seq[t] = 2
        /\ CounterAt(Key(t)) = 1
        /\ \A p \in products : p.id # t
        /\ \E p \in products : RowKey(p) = Key(t)

C10_TenantFromContext ==
    /\ \A p \in products :
         /\ p.tenant_id = tenant[p.id]
         /\ RowKey(p) \in DOMAIN counters
    /\ \A t \in Reqs : wcounter[t] # {} => Key(t)[1] = tenant[t]
    /\ \A k \in DOMAIN counters :
         \E t \in Reqs : pc[t] = "committed" /\ tenant[t] = k[1]

C10_Witness ==
    \E p, q \in products :
        /\ Payload(body[p.id]).tenant_id # tenant[p.id]
        /\ p.tenant_id = "tA" /\ tenant[p.id] = "tA"
        /\ q.tenant_id = "tB" /\ tenant[q.id] = "tB"
        /\ CounterAt(RowKey(p)) = 1 /\ CounterAt(RowKey(q)) = 1

(***************************************************************************)
(* C9: no two committed product rows of one tenant have the same           *)
(* human_sku, whatever registrations and imports ran and however they      *)
(* interleaved.                                                            *)
(***************************************************************************)
C9_HumanSkuUniquePerTenant ==
    \A p, q \in products :
        (p.tenant_id = q.tenant_id /\ p.human_sku = q.human_sku) => p.id = q.id

C9_Witness ==
    /\ \E t, u \in Reqs :
         /\ Concurrent(t, u) /\ Key(t) = Key(u)
         /\ pc[t] = "committed" /\ pc[u] = "failed" /\ seq[t] = seq[u]
    /\ ipc = "done"
    /\ \E p, q \in products : p.id < 0 /\ q.id > 0 /\ RowKey(p) = RowKey(q)

(***************************************************************************)
(* C11: every listing made for tenant T returns exactly the committed rows *)
(* created by requests whose token names T; a row created under another    *)
(* tenant's token is never in it.                                          *)
(***************************************************************************)
C11_ListingIsolation ==
    [][ \A r \in listed' :
          /\ \A p \in r.rows : p.tenant_id = r.tenant /\ tenant'[p.id] = r.tenant
          /\ listed' # listed
               => r.rows = {p \in products' : tenant'[p.id] = r.tenant} ]_vars

C11_Witness ==
    \E r \in listed :
        /\ r.tenant = "tB"
        /\ \E p \in r.rows : tenant[p.id] = "tB"
        /\ \E p \in products : tenant[p.id] = "tA" /\ p \notin r.rows

(***************************************************************************)
(* C12: a request whose full_product_name is empty is rejected when it     *)
(* arrives: it never reaches the allocator, no counter changes, and every  *)
(* committed registration holds 1 + the number of registrations committed  *)
(* before it on its key, rejected requests in between not counting.        *)
(***************************************************************************)
C12_EmptyNameRejected ==
    /\ [][ \A t \in Reqs :
             ( /\ pc[t] = "idle" /\ pc'[t] # "idle"
               /\ Len(Payload(body'[t]).full_product_name) = 0 )
             => /\ pc'[t] = "rejected"
                /\ counters' = counters
                /\ wcounter' = wcounter ]_vars
    /\ [](\A t \in Reqs :
            /\ pc[t] = "rejected" => (seq[t] = 0 /\ wcounter[t] = {})
            /\ pc[t] = "committed"
                 => seq[t] = 1 + Cardinality({u \in Reqs :
                                    u < t /\ pc[u] = "committed" /\ Key(u) = Key(t)}))

C12_Witness ==
    \E t, u, v \in Reqs :
        /\ t < u /\ u < v
        /\ pc[t] = "committed" /\ seq[t] = 1
        /\ pc[u] = "rejected" /\ Len(Payload(body[u]).full_product_name) = 0
        /\ Key(u) = Key(t)
        /\ pc[v] = "committed" /\ Key(v) = Key(t) /\ seq[v] = 2

(***************************************************************************)
(* C13 as claimed: a request with a code that does not fit the fixed width *)
(* of the SKU format (a brand code of more than 3 characters, a category   *)
(* code of more than 2, an empty code) is rejected and no counter row is   *)
(* created or incremented for it.                                          *)
(***************************************************************************)
C13_OutOfRangeCodeRejected ==
    \A t \in Reqs :
        LET payload == Payload(body[t])
            fits == /\ Len(payload.brand_code) \in 1..3
                    /\ Len(payload.category_code) \in 1..2
                    /\ Len(payload.subcategory_code) >= 1
                    /\ Len(payload.quantity_code) >= 1
        IN (Started(t) /\ ~fits) => (pc[t] = "rejected" /\ seq[t] = 0)

(***************************************************************************)
(* C14 as claimed: the brand_code of a product row is the request's        *)
(* brand_code with '0' characters put in front of it up to 3 characters,   *)
(* its category_code likewise up to 2, and its subcategory_code and        *)
(* quantity_code are the last character of the request's.                  *)
(***************************************************************************)
C14_Normalization ==
    \A p \in products :
        LET data == Payload(body[p.id])
            LeftPad(c, n) ==
                IF Len(c) >= n THEN c
                ELSE [i \in 1..n |-> IF i <= n - Len(c) THEN "0" ELSE c[i - (n - Len(c))]]
            Last(c) == IF c = <<>> THEN <<"0">> ELSE <<c[Len(c)]>>
        IN /\ p.brand_code = LeftPad(data.brand_code, 3)
           /\ p.category_code = LeftPad(data.category_code, 2)
           /\ p.subcategory_code = Last(data.subcategory_code)
           /\ p.quantity_code = Last(data.quantity_code)

(***************************************************************************)
(* C15 as claimed: registrations of one tenant whose codes differ only in  *)
(* leading zeros of brand and category and in the characters before the    *)
(* last one of subcategory and quantity share one counter: run one after   *)
(* another, each committed one holds 1 + the number of such registrations  *)
(* committed before it.                                                    *)
(***************************************************************************)
C15_NormalizedBeforeKeying ==
    \A t \in Reqs :
        LET SameUpToPadding(a, b) ==
                /\ LStrip(a.brand_code, "0") = LStrip(b.brand_code, "0")
                /\ LStrip(a.category_code, "0") = LStrip(b.category_code, "0")
                /\ LastChar(a.subcategory_code) = LastChar(b.subcategory_code)
                /\ LastChar(a.quantity_code) = LastChar(b.quantity_code)
        IN pc[t] = "committed"
           => seq[t] = 1 + Cardinality({u \in Reqs :
                              /\ u < t /\ pc[u] = "committed"
                              /\ tenant[u] = tenant[t]
                              /\ SameUpToPadding(Payload(body[u]), Payload(body[t]))})

(***************************************************************************)
(* C16: in a run of registrations made one after another, the k-th         *)
(* committed one of a key carries human_sku = the normalised codes and the *)
(* sequence joined by '-', and numeric_sku = the same five fields put      *)
(* together, the sequence being k in decimal with a leading '0' when       *)
(* k < 10; for the codes 1/1/1/1 the first two are "001-01-1-1-01" with    *)
(* "00101101", and "001-01-1-1-02".                                        *)
(***************************************************************************)
\* k in decimal, at least two digits (k < 1000)
PaddedDecimal(k) ==
    IF k < 10 THEN <<"0", DigitChars[k + 1]>>
    ELSE IF k < 100 THEN <<DigitChars[(k \div 10) + 1], DigitChars[(k % 10) + 1]>>
    ELSE <<DigitChars[(k \div 100) + 1], DigitChars[((k \div 10) % 10) + 1],
           DigitChars[(k % 10) + 1]>>

\* the padded sequence of every number up to MaxSeqShown
ProductSeqIsPaddedDecimal == \A n \in 1..MaxSeqShown : ProductSeq(n) = PaddedDecimal(n)

C17_EnsureAtLeastIsMax ==
    [][ /\ (ipc = "commit" /\ ipc' = "done")
             => \A i \in 1..Len(ImportRows) :
                  LET k == ImportKey(itenant, ImportRows[i])
                      vs == {SeqVal(ImportRows[j]) :
                               j \in {j \in 1..Len(ImportRows) :
                                         ImportKey(itenant, ImportRows[j]) = k}}
                      value == CHOOSE m \in vs : \A x \in vs : m >= x
                  IN counters'[k] = Max(CounterAt(k), value)
        /\ (ipc = "ensure" /\ ipos' = ipos + 1)
             => (seq' = seq /\ products' = products /\ counters' = counters) ]_vars

(***************************************************************************)
(* C18 as claimed: in every state of the import's session, for every key   *)
(* of skus.db and every value v, ensure_counter_at_least applied twice     *)
(* leaves the session as one application does.                             *)
(***************************************************************************)
C18_EnsureIdempotent ==
    ipc = "ensure"
    => \A i \in 1..Len(ImportRows), v \in 0..MaxAtLeast :
         LET k == ImportKey(itenant, ImportRows[i])
             once == ensure_counter_at_least(Session, k, v)
         IN ensure_counter_at_least(once, k, v) = once

(***************************************************************************)
(* C19 as claimed: a live request that begins after the import has         *)
(* committed is handed a sequence number greater than the sequence of      *)
(* every imported record of its key.                                       *)
(***************************************************************************)
C19_LiveAboveImported ==
    \A t \in Reqs :
        (0 \in pred[t] /\ Returned(t))
        => \A i \in 1..Len(ImportRows) :
             ImportKey(itenant, ImportRows[i]) = Key(t)
             => seq[t] > SeqVal(ImportRows[i])

(***************************************************************************)
(* C20 as claimed: no step removes a counter row or lowers the stored      *)
(* counter of a key.                                                       *)
(***************************************************************************)
C20_CounterNeverDecreases ==
    [][ \A k \in DOMAIN counters :
          k \in DOMAIN counters' /\ counters'[k] >= counters[k] ]_vars

(***************************************************************************)
(* C21 as claimed: every product row, written by a registration or by the  *)
(* bulk import, has human_sku = its own brand, category, subcategory and   *)
(* quantity codes and its product_seq joined by '-', and numeric_sku = the *)
(* same five fields put together.                                          *)
(***************************************************************************)
C21_RowSkusMatchFields ==
    \A p \in products :
        /\ p.human_sku = p.brand_code \o <<"-">> \o p.category_code \o <<"-">>
                            \o p.subcategory_code \o <<"-">> \o p.quantity_code
                            \o <<"-">> \o p.product_seq
        /\ p.numeric_sku = p.brand_code \o p.category_code \o p.subcategory_code
                            \o p.quantity_code \o p.product_seq

(***************************************************************************)
(* C27 as claimed: the product_seq of every row a registration wrote is    *)
(* the decimal form of the number, at least 1, that its own allocation     *)
(* returned, and the bulk import takes no record it has processed to have  *)
(* sequence 0.                                                             *)
(***************************************************************************)
C27_NoDefaultSequence ==
    /\ \A p \in products :
        p.id > 0 => seq[p.id] >= 1 /\ p.product_seq = PaddedDecimal(seq[p.id])
    /\ ipc # "idle" => \A i \in 1..ipos : SeqVal(ImportRows[i]) # 0

(***************************************************************************)
(* C22: for fields of the format's widths (brand 3 characters, category 2, *)
(* subcategory 1, quantity 1, no '-' in any field) the five fields are     *)
(* read back from the human form by cutting it at the '-' characters and   *)
(* from the numeric form by cutting it at the positions 3, 5, 6 and 7, and *)
(* two different such five-tuples never give the same human form or the    *)
(* same numeric form.                                                      *)
(***************************************************************************)
WellFormedFields(x) ==
    /\ Len(x[1]) = 3 /\ Len(x[2]) = 2 /\ Len(x[3]) = 1 /\ Len(x[4]) = 1
    /\ \A i \in 1..5 : "-" \notin Range(x[i])

RECURSIVE SplitAt(_, _)
\* the pieces of s between the occurrences of the character c
SplitAt(s, c) ==
    IF \E i \in 1..Len(s) : s[i] = c
    THEN LET i == CHOOSE j \in 1..Len(s) : s[j] = c /\ \A h \in 1..(j - 1) : s[h] # c
         IN <<SubSeq(s, 1, i - 1)>> \o SplitAt(SubSeq(s, i + 1, Len(s)), c)
    ELSE <<s>>

CutNumeric(s) ==
    <<SubSeq(s, 1, 3), SubSeq(s, 4, 5), SubSeq(s, 6, 6), SubSeq(s, 7, 7), SubSeq(s, 8, Len(s))>>

C22_ComposersInjective ==
    (fin.fn = "format_sku" /\ WellFormedFields(fin.arg)) =>
        /\ fout = Compose(fin.arg)
        /\ SplitAt(fout.human_sku, "-") = fin.arg
        /\ CutNumeric(fout.numeric_sku) = fin.arg
        /\ \A y \in ComposeInputs :
              (WellFormedFields(y) /\ y # fin.arg) =>
                  /\ format_human_sku(y[1], y[2], y[3], y[4], y[5]) # fout.human_sku
                  /\ format_numeric_sku(y[1], y[2], y[3], y[4], y[5]) # fout.numeric_sku

\* the composers were applied to 001, 01, 1, 1 and sequence 100
C22_Witness ==
    /\ fin.fn = "format_sku"
    /\ fin.arg = <<<<"0", "0", "1">>, <<"0", "1">>, <<"1">>, <<"1">>, <<"1", "0", "0">>>>
    /\ fout.human_sku = <<"0", "0", "1", "-", "0", "1", "-", "1", "-", "1", "-", "1", "0", "0">>
    /\ fout.numeric_sku = <<"0", "0", "1", "0", "1", "1", "1", "1", "0", "0">>

(***************************************************************************)
(* C23 as claimed: the slug of a slug is the slug itself, for every name.  *)
(***************************************************************************)
C23_SlugIdempotent ==
    fin.fn = "slug_from_name" =>
        /\ fout = slug_from_name(fin.arg)
        /\ slug_from_name(fout) = fout

(***************************************************************************)
(* C24: the slug is the name with every alphanumeric character replaced by *)
(* its lower-case form and every other character by one '-' (a run of     *)
(* them by as many), without the '-' characters at its two ends; it never  *)
(* begins or ends with '-'; the slug of "Shin Ramyun!!" is "shin-ramyun".  *)
(* As claimed, the slug holds no upper-case letter; as amended, every      *)
(* character of the slug is its own lower-case form.                       *)
(***************************************************************************)
\* str.isupper() of one character
IsUpper(c) == c \in Range(UpperChars) \cup {CapitalIDot, DoubleStruckC}

Dashes(k) == [i \in 1..k |-> "-"]

SlugShape(name, out) ==
    LET img == Join([i \in 1..Len(name) |->
                        IF name[i] \in AlnumChars THEN Lower(name[i]) ELSE <<"-">>])
    IN /\ \E i, j \in 0..Len(img) : img = Dashes(i) \o out \o Dashes(j)
       /\ out # <<>> => out[1] # "-" /\ out[Len(out)] # "-"
       /\ Len(img) = Len(name) + Cardinality({i \in 1..Len(name) : name[i] = CapitalIDot})

ShinRamyunSlug == <<"s", "h", "i", "n", "-", "r", "a", "m", "y", "u", "n">>

C25_NoSequentialDuplicate ==
    \A t \in Reqs :
        ~ /\ pc[t] = "failed"
          /\ seq[t] >= 1
          /\ UniqueViolation(products, NewProduct(t, tenant[t], Data(t), seq[t]))

(***************************************************************************)
(* C26: a registration whose commit meets a row of its tenant with its     *)
(* human_sku ends in failure by that step, leaving the durable counters    *)
(* and products as they were; it is never handed a second number and never *)
(* runs again, and no product row of it is ever stored.                    *)
(***************************************************************************)
DuplicateAtCommit(t) ==
    /\ pc[t] = "commit"
    /\ UniqueViolation(products, NewProduct(t, tenant[t], Data(t), seq[t]))

C26_SingleAttempt ==
    /\ [][\A t \in Reqs :
            /\ (DuplicateAtCommit(t) /\ pc'[t] # pc[t]) =>
                  /\ pc'[t] \in {"failed", "aborted"}
                  /\ counters' = counters
                  /\ products' = products
            /\ seq[t] # 0 => seq'[t] = seq[t]
            /\ pc[t] = "failed" => pc'[t] = "failed"]_vars
    /\ [](\A t \in Reqs : pc[t] = "failed" => ~\E p \in products : p.id = t)

\* a registration of D2 failed at its commit with sequence 1, the row of D1
\* holding its human_sku
C26_Witness ==
    \E t \in Reqs :
        /\ pc[t] = "failed"
        /\ seq[t] = 1
        /\ body[t] = "D2"
        /\ \E p \in products : p.id # t /\ p.tenant_id = tenant[t]
                               /\ p.human_sku = NewProduct(t, tenant[t], Data(t), 1).human_sku

(***************************************************************************)
(* C28 as claimed: a registration in progress that cannot take its next    *)
(* step is waiting for a registration in progress on its own key: requests *)
(* on other keys never make it wait.                                       *)
(***************************************************************************)
CanStep(t) ==
    \/ ENABLED Select(t)
    \/ ENABLED FlushCounter(t)
    \/ ENABLED InsertProduct(t)
    \/ ENABLED CommitTx(t)

C28_OtherKeysNeverBlock ==
    \A t \in Reqs :
        (pc[t] \in InFlight /\ ~CanStep(t)) =>
            \E u \in Reqs \ {t} : pc[u] \in InFlight /\ Key(u) = Key(t)

(***************************************************************************)
(* C29: in the desktop tool, deleting a SKU row leaves the counters table  *)
(* as it is, and the numbers create_sku_record is given for one key grow   *)
(* from call to call, deletions in between or not: the number of a deleted *)
(* row is never issued again.                                              *)
(***************************************************************************)
C29_DeletedNumberNotReissued ==
    /\ [][Cardinality(dskus') < Cardinality(dskus) => dcounters' = dcounters]_vars
    /\ [](\A i, j \in DesktopCreates :
             (i < j /\ dissued[i].key = dissued[j].key) => dissued[j].seq > dissued[i].seq)

\* a row was created, then deleted, and a later creation on the key of that
\* row was given a greater number
C29_Witness ==
    \E i, d, j \in 1..Len(dissued) :
        /\ i < d /\ d < j
        /\ dissued[i].op = "create" /\ dissued[i].id # 0
        /\ dissued[d].op = "delete" /\ dissued[d].id = dissued[i].id
        /\ dissued[d].key = dissued[i].key
        /\ dissued[j].op = "create" /\ dissued[j].key = dissued[i].key
        /\ dissued[j].seq > dissued[i].seq

(***************************************************************************)
(* C30: in the desktop tool, a create_sku_record call whose INSERT fails   *)
(* leaves the counter of its key advanced by one and the skus table as it  *)
(* was; the stored counter of a key is the number given to the last call   *)
(* on it, and every call is given the number after the one of the previous *)
(* call on its key, whether that call stored a row or failed.              *)
(***************************************************************************)
\* the creation at position j is the next one on its key after position i
NextCreateOnKey(i, j) ==
    /\ i < j
    /\ dissued[i].key = dissued[j].key
    /\ ~\E h \in DesktopCreates : i < h /\ h < j /\ dissued[h].key = dissued[i].key

C30_FailedInsertConsumesNumber ==
    /\ [][(Len(dissued') > Len(dissued) /\ dissued'[Len(dissued')].op = "create"
              /\ dissued'[Len(dissued')].id = 0) =>
            LET e == dissued'[Len(dissued')] IN
            /\ dskus' = dskus
            /\ e.key \in DOMAIN dcounters'
            /\ dcounters'[e.key] = DesktopCounterAt(e.key) + 1
            /\ e.seq = dcounters'[e.key]]_vars
    /\ [](\A j \in DesktopCreates :
             /\ dissued[j].key \in DOMAIN dcounters
             /\ (\A i \in DesktopCreates : ~NextCreateOnKey(i, j)) => dissued[j].seq = 1
             /\ \A i \in DesktopCreates :
                   NextCreateOnKey(i, j) => dissued[j].seq = dissued[i].seq + 1
             /\ (\A h \in DesktopCreates : ~NextCreateOnKey(j, h)) =>
                   dcounters[dissued[j].key] = dissued[j].seq)

\* a creation failed at its INSERT and the next creation on its key stored a
\* row with the following number
C30_Witness ==
    \E i, j \in DesktopCreates :
        /\ NextCreateOnKey(i, j)
        /\ dissued[i].id = 0
        /\ dissued[j].id # 0
        /\ dissued[j].seq = dissued[i].seq + 1
        /\ \E r \in dskus : r.id = dissued[j].id /\ r.product_seq = ProductSeq(dissued[j].seq)

(***************************************************************************)
(* C31: in the desktop tool, update_sku_record changes neither the         *)
(* counters nor any other row; the row of the given id keeps its id and    *)
(* product_seq and carries the SKUs composed from its new codes and that   *)
(* sequence, which are what the call returns; when no row has the id it    *)
(* raises ValueError and the skus table stays as it is.                    *)
(***************************************************************************)
DesktopKeyOf(r) == <<r.brand_code, r.category_code, r.subcategory_code, r.quantity_code>>

C31_UpdateKeepsSequence ==
    [][dresult'.op = "update" =>
        /\ dcounters' = dcounters
        /\ dnextid' = dnextid
        /\ (dresult'.error = "ValueError") = (~\E r \in dskus : r.id = dresult'.id)
        /\ dresult'.error # "" => dskus' = dskus
        /\ dresult'.error = "" =>
              \E old \in dskus, new \in dskus' :
                  /\ dskus' = (dskus \ {old}) \cup {new}
                  /\ new.id = old.id /\ old.id = dresult'.id
                  /\ new.product_seq = old.product_seq
                  /\ new.human_sku = new.brand_code \o <<"-">> \o new.category_code
                                        \o <<"-">> \o new.subcategory_code \o <<"-">>
                                        \o new.quantity_code \o <<"-">> \o old.product_seq
                  /\ new.numeric_sku = new.brand_code \o new.category_code
                                        \o new.subcategory_code \o new.quantity_code
                                        \o old.product_seq
                  /\ dresult'.human_sku = new.human_sku
                  /\ dresult'.numeric_sku = new.numeric_sku]_vars

\* the last handler was an update that moved a row to other codes than those
\* it was created with; the row carries the number it was created with
C31_Witness ==
    /\ dresult.op = "update" /\ dresult.error = ""
    /\ \E r \in dskus, i \in DesktopCreates :
          /\ r.id = dresult.id /\ dissued[i].id = r.id
          /\ DesktopKeyOf(r) # dissued[i].key
          /\ r.product_seq = ProductSeq(dissued[i].seq)
          /\ r.human_sku = dresult.human_sku

(***************************************************************************)
(* C32 as claimed: no step of the desktop tool, its start-up included,     *)
(* takes away the counter row of a SKU record that stays in the table.     *)
(***************************************************************************)
\* the counters table cs holds the counter row that numbers record r: the row
\* of its four codes, or of its brand and category in the earlier layout
HasCounterRow(cs, r) ==
    \/ DesktopKeyOf(r) \in DOMAIN cs
    \/ <<r.brand_code, r.category_code>> \in DOMAIN cs

C32_CounterKeptWhileRecordsExist ==
    [][\A r \in dskus \cap dskus' :
          HasCounterRow(dcounters, r) => HasCounterRow(dcounters', r)]_vars

(***************************************************************************)
(* C38 as claimed: in the desktop tool a preview changes no table, and a   *)
(* create_sku_record that follows a preview of the same selection at once  *)
(* returns the human and numeric SKU the preview showed.                   *)
(***************************************************************************)
C38_PreviewShowsNextSku ==
    [][/\ dresult'.op = "preview" =>
             dcounters' = dcounters /\ dskus' = dskus /\ dnextid' = dnextid
       /\ (dresult.op = "preview" /\ dresult'.op = "create"
              /\ dresult'.codes = dresult.codes) =>
             /\ dresult'.error = ""
             /\ dresult'.human_sku = dresult.human_sku
             /\ dresult'.numeric_sku = dresult.numeric_sku]_vars

(***************************************************************************)
(* C33: the tenant context of a request that gets past get_tenant is the   *)
(* tenant of its token; a request or listing whose X-Tenant-Id names       *)
(* another tenant is answered 403: it writes and reads nothing, and every  *)
(* listing holds rows of the token's tenant only.                          *)
(***************************************************************************)
NamesOtherTenant(h, T) == HeaderGiven(h) /\ h.tenant # T

C33_ContextIsTokenTenant ==
    /\ \A t \in Reqs :
          /\ pc[t] \in (InFlight \cup Ended) \ {"forbidden"} => tenant[t] = token[t]
          /\ (pc[t] # "idle" /\ NamesOtherTenant(header[t], token[t])) =>
                /\ pc[t] = "forbidden"
                /\ selected[t] = {} /\ seq[t] = 0 /\ wcounter[t] = {} /\ wproduct[t] = {}
    /\ \A p \in products :
          \E t \in Reqs : pc[t] = "committed" /\ token[t] = p.tenant_id
                             /\ ~NamesOtherTenant(header[t], token[t])
    /\ \A r \in listed :
          /\ NamesOtherTenant(r.header, r.tenant) => r.status = 403 /\ r.rows = {}
          /\ \A p \in r.rows : p.tenant_id = r.tenant

C33_Witness ==
    /\ \E t \in Reqs : pc[t] = "forbidden" /\ header[t] = UuidStr("tB") /\ token[t] = "tA"
    /\ \E t \in Reqs : pc[t] = "committed" /\ header[t] = UuidStr(token[t])
    /\ \E r \in listed : r.status = 403 /\ r.tenant = "tA" /\ r.header = UuidStr("tB")

(***************************************************************************)
(* C34 as claimed: in every committed state the counter row of the tenant  *)
(* and key of each product row whose product_seq is a number exists and    *)
(* holds at least that number, whatever registrations, rollbacks and       *)
(* imports ran.                                                            *)
(***************************************************************************)
ProductKey(p) ==
    CounterKey(p.tenant_id, p.brand_code, p.category_code,
               p.subcategory_code, p.quantity_code)

C34_CounterCoversProducts ==
    \A p \in products :
        IsDigit(p.product_seq) => CounterAt(ProductKey(p)) >= StrToInt(p.product_seq)

(***************************************************************************)
(* C35: of the requests of one key that found no counter row, at most one  *)
(* is handed the number 1 and goes on to commit it: never do two of them   *)
(* hold a returned 1 while in or past their commit; the INSERT of a request*)
(* that found no row, once another has committed the row, fails and        *)
(* returns nothing (unless the request was abandoned before).              *)
(***************************************************************************)
HoldsFirstNumber(t) == seq[t] = 1 /\ pc[t] \in {"commit", "inserted", "committed"}

C35_OneFirstAllocation ==
    /\ [](\A t, u \in Reqs :
             (t # u /\ Started(t) /\ Started(u) /\ Key(t) = Key(u))
             => ~(HoldsFirstNumber(t) /\ HoldsFirstNumber(u)))
    /\ [][\A t \in Reqs :
             (pc[t] = "flush" /\ pc'[t] # "flush" /\ selected[t] = {}
                 /\ Key(t) \in DOMAIN counters)
             => (pc'[t] \in {"failed", "aborted"} /\ seq'[t] = 0)]_vars

C35_Witness ==
    \E t, u \in Reqs :
        /\ t # u /\ Key(t) = Key(u) /\ Concurrent(t, u)
        /\ pc[t] = "committed" /\ seq[t] = 1
        /\ pc[u] = "failed" /\ seq[u] = 0
        /\ counters[Key(t)] = 1

(***************************************************************************)
(* C36: every counter row, committed or written and not yet committed by a *)
(* registration or by the import, holds a number of at least 1.            *)
(***************************************************************************)
C36_CounterAtLeastOne ==
    /\ \A k \in DOMAIN counters : counters[k] >= 1
    /\ \A t \in Reqs : \A n \in wcounter[t] : n >= 1
    /\ \A i \in 1..Len(inew) : inew[i].counter >= 1
    /\ \A k \in DOMAIN iloaded : iloaded[k] >= 1

C36_Witness ==
    /\ ipc = "done" /\ isrc = "foreign"
    /\ \E i \in 1..Len(ImportRows) :
          /\ SeqVal(ImportRows[i]) = 0
          /\ ImportKey(itenant, ImportRows[i]) \in DOMAIN counters
          /\ counters[ImportKey(itenant, ImportRows[i])] = 1
    /\ \E t \in Reqs : pc[t] = "committed" /\ counters[Key(t)] >= 1

(***************************************************************************)
(* C37 as claimed: two product rows of one tenant that differ in one of    *)
(* brand_code, category_code, subcategory_code, quantity_code, product_seq *)
(* differ in numeric_sku and differ in human_sku.                          *)
(***************************************************************************)
ProductFields(p) ==
    <<p.brand_code, p.category_code, p.subcategory_code, p.quantity_code, p.product_seq>>

C37_DistinctFieldsDistinctSkus ==
    \A p, q \in products :
        (p.tenant_id = q.tenant_id /\ ProductFields(p) # ProductFields(q))
        => (p.numeric_sku # q.numeric_sku /\ p.human_sku # q.human_sku)

(***************************************************************************)
(* C39: under fair scheduling every registration that has begun ends,      *)
(* committed or with an error, whether the requests in flight work on the  *)
(* same key, on different keys or on keys whose SKUs coincide.             *)
(***************************************************************************)
C39_EveryRegistrationEnds ==
    \A t \in Reqs : (pc[t] \in InFlight) ~> (pc[t] \in Ended)

C39_Witness ==
    \E t, u \in Reqs :
        /\ Concurrent(t, u)
        /\ body[t] = "D1" /\ body[u] = "D2"
        /\ seq[t] = 1 /\ seq[u] = 1
        /\ pc[t] = "committed" /\ pc[u] = "failed"

====
